---- MODULE Spec2Model ----
(***************************************************************************)
(* A model of simplebtclib (src/btc): elliptic-curve point arithmetic      *)
(* (ecpoint.py), modular inverse and byte conversions (utils.py), key      *)
(* objects with ECDSA sign / verify (keys.py), the RFC 6979 nonce          *)
(* (randoms.py) and BIP32 extended keys (bip32.py).                        *)
(*                                                                         *)
(* TLC's integers are 32 bits wide, so the model runs the code of the      *)
(* library on a scaled-down curve of the same shape as secp256k1:          *)
(*     y^2 = x^3 + 7 over F_163, of prime order 139.                       *)
(* Like secp256k1 it has a = 0, b = 7, p = 3 (mod 4), cofactor 1,          *)
(* order < p < 2 * order, no point with x = 0 or y = 0, and a point whose  *)
(* x coordinate equals the order.  Byte strings are sequences of 0..255;   *)
(* the 32-byte fields of the library (scalars, coordinates, digests,       *)
(* chain codes) are KEY_LEN = 1 byte long and ser32 is INDEX_LEN = 1 byte, *)
(* so that a hardened index is one >= 2^7.                                 *)
(***************************************************************************)
EXTENDS Integers, Sequences, FiniteSets, TLC

VARIABLES
    ecIn, ecOut,      \* SpecEC: a call of a point operation and its result
    sgIn, sgOut,      \* SpecSign: a key, a digest, the signature and the verdict
    kyObj, kyRet,     \* SpecKeys: a KeysBTC object and the last call's result
    kyFirst,          \* SpecKeys: per digest, the first signature sign returned
    xkIn, xkOut,      \* SpecXKey: a call on an ExtendedKey and its results
    bpObj, bpRet,     \* SpecBip32: a BIP32 object and the last call's result
    wfIn, wfOut,      \* SpecWif: a private key and its WIF string, there and back
    txObj, txRet      \* SpecTx: a TransactBTC object and the last call's result

ecVars == <<ecIn, ecOut>>

sgVars == <<sgIn, sgOut>>

kyVars == <<kyObj, kyRet, kyFirst>>

xkVars == <<xkIn, xkOut>>

bpVars == <<bpObj, bpRet>>

wfVars == <<wfIn, wfOut>>

txVars == <<txObj, txRet>>

vars == <<ecVars, sgVars, kyVars, xkVars, bpVars, wfVars, txVars>>

(***************************************************************************)
(* ecpoint.py: curve parameters (scaled).                                  *)
(***************************************************************************)
SECP256K1_A == 0

SECP256K1_B == 7

SECP256K1_GX == 2

SECP256K1_GY == 34

SECP256K1_P == 163

SECP256K1_ORDER == 139

(***************************************************************************)
(* Python evaluates an argument once, before the call.  Apply(e, F) is F   *)
(* applied to the value of e: e is evaluated once, however often F uses    *)
(* its argument.                                                           *)
(***************************************************************************)
Apply(e, F(_)) == CHOOSE y \in {F(v) : v \in {e}} : TRUE

(***************************************************************************)
(* utils.py: mod_inverse.  A raised ValueError is the result with err set. *)
(***************************************************************************)
\* Python's b // a and b % a: the quotient is rounded down and the remainder
\* has the sign of a
py_floordiv(b, a) == IF a > 0 THEN b \div a ELSE (0 - b) \div (0 - a)

py_mod(b, a) == IF a > 0 THEN b % a ELSE b - a * py_floordiv(b, a)

RECURSIVE egcd(_, _)
egcd(a, b) ==
    IF a = 0 THEN <<b, 0, 1>>
    ELSE LET r == egcd(py_mod(b, a), a)
         IN  <<r[1], r[3] - r[2] * py_floordiv(b, a), r[2]>>

mod_inverse(a, m) ==
    LET r == egcd(a, m)
    IN  IF r[1] # 1 THEN [err |-> TRUE, val |-> 0]
        ELSE [err |-> FALSE, val |-> r[2] % m]

(***************************************************************************)
(* ecpoint.py: ECPoint.  A point is its (x, y); the curve parameters of    *)
(* every point the library builds are the module constants.  (0, 0) is the *)
(* point at infinity.                                                      *)
(***************************************************************************)
Pt(x, y) == [x |-> x, y |-> y]

infinity == Pt(0, 0)

is_contained(x, y, a, b, mod) == (y * y - (x * x * x + a * x + b)) % mod = 0

\* ECPoint.__init__: the assertion that a point other than (0, 0) is on the curve
ECPoint_init_ok(x, y) ==
    (x # 0 \/ y # 0) => is_contained(x, y, SECP256K1_A, SECP256K1_B, SECP256K1_P)

double(p) ==
    IF p = infinity THEN infinity
    ELSE LET dy == (3 * p.x * p.x + SECP256K1_A) % SECP256K1_P
             dx == (2 * p.y) % SECP256K1_P
             s  == (dy * mod_inverse(dx, SECP256K1_P).val) % SECP256K1_P
             x3 == (s * s - p.x - p.x) % SECP256K1_P
             y3 == (s * (p.x - x3) - p.y) % SECP256K1_P
         IN  Pt(x3, y3)

\* add with the sign of y1 wrong in y3
add_y_sign(p1, p2) ==
    IF p1 = infinity THEN p2
    ELSE IF p2 = infinity THEN p1
    ELSE IF p1.x = p2.x
         THEN IF p1.y = p2.y THEN double(p1) ELSE infinity
    ELSE LET dy == (p2.y - p1.y) % SECP256K1_P
             dx == (p2.x - p1.x) % SECP256K1_P
             s  == (dy * mod_inverse(dx, SECP256K1_P).val) % SECP256K1_P
             x3 == (s * s - p1.x - p2.x) % SECP256K1_P
             y3 == (s * (p1.x - x3) + p1.y) % SECP256K1_P
         IN  Pt(x3, y3)

add(p1, p2) ==
    IF p1 = infinity THEN p2
    ELSE IF p2 = infinity THEN p1
    ELSE IF p1.x = p2.x
         THEN IF p1.y = p2.y THEN double(p1) ELSE infinity
    ELSE LET dy == (p2.y - p1.y) % SECP256K1_P
             dx == (p2.x - p1.x) % SECP256K1_P
             s  == (dy * mod_inverse(dx, SECP256K1_P).val) % SECP256K1_P
             x3 == (s * s - p1.x - p2.x) % SECP256K1_P
             y3 == (s * (p1.x - x3) - p1.y) % SECP256K1_P
         IN  Pt(x3, y3)

\* ECPoint.__add__
PointPlus(p, q) == IF p.x = q.x /\ p.y = q.y THEN double(p) ELSE add(p, q)

\* the while loop of ECPoint.multiply
RECURSIVE multiply_loop(_, _, _)
multiply_loop(temp, p, x) ==
    IF x > 0
    THEN IF x % 2 # 0
         THEN multiply_loop(IF temp = p THEN double(temp) ELSE add(temp, p),
                            double(p), (x - 1) \div 2)
         ELSE multiply_loop(temp, double(p), x \div 2)
    ELSE temp

multiply(p, x) == multiply_loop(p, p, x - 1)

\* KeysBTC.get_generator_point
get_generator_point == Pt(SECP256K1_GX, SECP256K1_GY)

(***************************************************************************)
(* utils.py: byte strings.  The library's 32-byte fields are KEY_LEN bytes *)
(* long here and its 4-byte index is INDEX_LEN bytes long.                 *)
(***************************************************************************)
KEY_LEN == 1

INDEX_LEN == 1

Byte == 0 .. 255

RECURSIVE Pow(_, _)
Pow(b, e) == IF e = 0 THEN 1 ELSE b * Pow(b, e - 1)

\* int.bit_length
RECURSIVE bit_length(_)
bit_length(i) == IF i = 0 THEN 0 ELSE 1 + bit_length(i \div 2)

\* i.to_bytes(length, "big") raises OverflowError when i does not fit
int2bytes_fits(i, length) == i >= 0 /\ i < Pow(256, length)

int2bytes(i, length) == [j \in 1 .. length |-> (i \div Pow(256, length - j)) % 256]

RECURSIVE bytes2int(_)
bytes2int(b) ==
    IF Len(b) = 0 THEN 0
    ELSE bytes2int(SubSeq(b, 1, Len(b) - 1)) * 256 + b[Len(b)]

(***************************************************************************)
(* utils.py: sha, hmac_sha, sha256, hmac_sha512, ripemd160.  The hashlib   *)
(* primitives are a fixed function of their input bytes: a byte-wise       *)
(* mixing of the input from a seed that tells the primitives apart.  The   *)
(* digests are KEY_LEN bytes, that of hmac_sha512 twice as many.           *)
(***************************************************************************)
HashMix(acc, b) ==
    (((acc * 31 + b + 7) * (acc * 31 + b + 7) + acc + b * 3) % 257) % 256

\* the bytes data[lo .. hi] mixed into acc one after the other, the first
\* half of them and then the second
RECURSIVE HashFold(_, _, _, _)
HashFold(acc, data, lo, hi) ==
    IF lo > hi THEN acc
    ELSE IF lo = hi THEN HashMix(acc, data[lo])
    ELSE Apply(HashFold(acc, data, lo, (lo + hi) \div 2), LAMBDA half :
            HashFold(half, data, (lo + hi) \div 2 + 1, hi))

HashModel(seed, data) == HashFold(seed, data, 1, Len(data))

sha(data) == <<HashModel(1, data)>>

sha256(data) == sha(data)

hmac_sha(secret, data) == <<HashModel(2, secret \o data)>>

hmac_sha512(secret, data) ==
    <<HashModel(3, secret \o data), HashModel(4, secret \o data)>>

ripemd160(data) == <<HashModel(5, data)>>

(***************************************************************************)
(* randoms.py: random_rfc6979(message, x, q, curve_gen_point), with the    *)
(* default sha_type.  useGen is FALSE for curve_gen_point = None.          *)
(***************************************************************************)
rfc_qlen(q) == bit_length(q)

rfc_rlen(q) == 8 * ((rfc_qlen(q) + 7) \div 8)

bits2int(b, q) ==
    LET blen == Len(b) * 8
        num  == bytes2int(b)
    IN  IF rfc_qlen(q) < blen THEN num \div Pow(2, blen - rfc_qlen(q)) ELSE num

int2octets(i, q) == int2bytes(i, rfc_rlen(q) \div 8)

bits2octets(b, q) == int2octets(bits2int(b, q) % q, q)

test_suitable(k, useGen, gen) ==
    IF ~useGen THEN TRUE ELSE multiply(gen, k).x # 0

\* the inner loop of step h: extend t by HMAC rounds until it has qlen bits
RECURSIVE rfc_fill(_, _, _, _)
rfc_fill(k, v, t, q) ==
    IF Len(t) * 8 < rfc_qlen(q)
    THEN LET v2 == hmac_sha(k, v) IN rfc_fill(k, v2, t \o v2, q)
    ELSE [v |-> v, t |-> t]

\* the test of a candidate of step h without its lower bound
rfc_accepts_below_q(kk, q, useGen, gen) ==
    kk < q /\ test_suitable(kk, useGen, gen)

\* the test of a candidate of step h
rfc_accepts(kk, q, useGen, gen) ==
    1 <= kk /\ kk < q /\ test_suitable(kk, useGen, gen)

\* the else branch of step h: one more HMAC round for k and v
rfc_retry(k, v) ==
    Apply(hmac_sha(k, v \o <<0>>), LAMBDA k2 : [k |-> k2, v |-> hmac_sha(k2, v)])

\* the outer loop of step h
RECURSIVE rfc_step_h(_, _, _, _, _)
rfc_step_h(k, v, q, useGen, gen) ==
    Apply(rfc_fill(k, v, <<>>, q), LAMBDA f :
    Apply(bits2int(f.t, q), LAMBDA kk :
        IF rfc_accepts(kk, q, useGen, gen)
        THEN kk
        ELSE Apply(rfc_retry(k, f.v), LAMBDA n :
                rfc_step_h(n.k, n.v, q, useGen, gen))))

\* steps a to g: k and v before step h
rfc_prepare(message, x, q) ==
    Apply(sha(message), LAMBDA h1 :                               \* step a
    Apply([j \in 1 .. Len(h1) |-> 1], LAMBDA v0 :                 \* step b
    Apply([j \in 1 .. Len(h1) |-> 0], LAMBDA k0 :                 \* step c
    Apply(int2octets(x, q) \o bits2octets(h1, q), LAMBDA xh :
    Apply(hmac_sha(k0, v0 \o <<0>> \o xh), LAMBDA k1 :            \* step d
    Apply(hmac_sha(k1, v0), LAMBDA v1 :                           \* step e
    Apply(hmac_sha(k1, v1 \o <<1>> \o xh), LAMBDA k2 :            \* step f
        [k |-> k2, v |-> hmac_sha(k2, v1)])))))))                 \* step g

random_rfc6979(message, x, q, useGen, gen) ==
    Apply(rfc_prepare(message, x, q), LAMBDA g :
        rfc_step_h(g.k, g.v, q, useGen, gen))                     \* step h

(***************************************************************************)
(* keys.py: KeysBTC.  An object is the record of its five fields; None is  *)
(* the empty tuple and a set field is the 1-tuple of its value.            *)
(***************************************************************************)
None == <<>>

Some(v) == <<v>>

\* the fields KeysBTC.__init__ sets
KeysBTC_new(private_key) ==
    [private_key |-> private_key, public_point |-> None, public_key |-> None,
     public_key_hash |-> None, address |-> None]

\* the assertion of KeysBTC.__init__
KeysBTC_init_ok(private_key) == bytes2int(private_key) > 0

get_private_key_int(self) == bytes2int(self.private_key)

\* get_public_point: the value returned, and the object after the call
get_public_point(self) ==
    IF self.public_point = None
    THEN multiply(get_generator_point, get_private_key_int(self))
    ELSE self.public_point[1]

after_get_public_point(self) ==
    [self EXCEPT !.public_point = Some(get_public_point(self))]

\* KeysBTC.sign below the nonce: C = G * k and s, returned as bytes (with k)
sign_with_nonce(self, hash, k) ==
    LET private_key_int == get_private_key_int(self)
        N  == SECP256K1_ORDER
        h0 == bytes2int(hash) % N
        h  == IF h0 = 0 THEN 1 ELSE h0
    IN  Apply(multiply(get_generator_point, k), LAMBDA C :
        Apply(((h + C.x * private_key_int) * mod_inverse(k, N).val) % N, LAMBDA s :
            [k |-> k, r |-> int2bytes(C.x, KEY_LEN), s |-> int2bytes(s, KEY_LEN)]))

\* a sign whose nonce also hashes the public key the object has cached
sign_nonce_from_cache(self, hash) ==
    Apply(random_rfc6979(IF self.public_key = None THEN hash
                         ELSE hash \o self.public_key[1],
                         get_private_key_int(self), SECP256K1_ORDER, TRUE,
                         get_generator_point),
          LAMBDA k : sign_with_nonce(self, hash, k))

\* KeysBTC.sign: the pair (r, s), as bytes
sign(self, hash) ==
    Apply(random_rfc6979(hash, get_private_key_int(self), SECP256K1_ORDER, TRUE,
                         get_generator_point),
          LAMBDA k : sign_with_nonce(self, hash, k))

\* KeysBTC.verify: err when mod_inverse raises, else the boolean returned
verify(self, hash, r, s) ==
    LET N  == SECP256K1_ORDER
        h0 == bytes2int(hash) % N
        h  == IF h0 = 0 THEN 1 ELSE h0
        r1 == bytes2int(r)
    IN  Apply(mod_inverse(bytes2int(s), N), LAMBDA s_inv :
            IF s_inv.err THEN [err |-> TRUE, val |-> FALSE]
            ELSE LET u1 == (h * s_inv.val) % N
                     u2 == (r1 * s_inv.val) % N
                 IN  Apply(multiply(get_generator_point, u1), LAMBDA C1 :
                     Apply(multiply(get_public_point(self), u2), LAMBDA C2 :
                        [err |-> FALSE, val |-> (PointPlus(C1, C2).x = r1)])))

(***************************************************************************)
(* utils.py: base58_encode, base58_decode.  A string is the sequence of    *)
(* the positions of its characters in BASE58_ALPHABET (so "1" is 0).  The  *)
(* integer between the bytes and the string is unbounded in the library;   *)
(* here it is kept as its big-endian bytes and divided or multiplied       *)
(* digit by digit.                                                         *)
(***************************************************************************)
BASE58_COUNT == 58

\* num // BASE58_COUNT and num % BASE58_COUNT, for num = bytes2int(b)
RECURSIVE big_divmod(_, _, _, _)
big_divmod(b, i, rem, q) ==
    IF i > Len(b) THEN [q |-> q, r |-> rem]
    ELSE LET cur == rem * 256 + b[i]
         IN  big_divmod(b, i + 1, cur % BASE58_COUNT, Append(q, cur \div BASE58_COUNT))

\* num * BASE58_COUNT + d on the bytes of num; carry is what does not fit
RECURSIVE big_muladd(_, _, _)
big_muladd(b, i, carry) ==
    IF i = 0 THEN [val |-> b, carry |-> carry]
    ELSE LET cur == b[i] * BASE58_COUNT + carry
         IN  big_muladd([b EXCEPT ![i] = cur % 256], i - 1, cur \div 256)

big_is_zero(b) == \A i \in 1 .. Len(b) : b[i] = 0

big_below_base(b) ==
    /\ \A i \in 1 .. Len(b) - 1 : b[i] = 0
    /\ (Len(b) > 0 => b[Len(b)] < BASE58_COUNT)

RECURSIVE base58_encode_loop(_, _)
base58_encode_loop(num, encoded) ==
    IF ~big_below_base(num)
    THEN LET dm == big_divmod(num, 1, 0, <<>>)
         IN  base58_encode_loop(dm.q, <<dm.r>> \o encoded)
    ELSE IF ~big_is_zero(num) THEN <<num[Len(num)]>> \o encoded
    ELSE encoded

base58_encode(b) == base58_encode_loop(b, <<>>)

\* base58_decode(s, length): err when int2bytes raises OverflowError; bad when
\* BASE58_ALPHABET.index raises ValueError, which it does before: a character
\* outside the alphabet is a number that is no index of it
RECURSIVE base58_decode_loop(_, _, _, _)
base58_decode_loop(s, i, acc, over) ==
    IF i > Len(s) THEN [err |-> over, bad |-> FALSE, val |-> acc]
    ELSE LET m == big_muladd(acc, Len(acc), s[i])
         IN  base58_decode_loop(s, i + 1, m.val, over \/ m.carry # 0)

base58_decode(s, length) ==
    IF \E i \in 1 .. Len(s) : s[i] \notin 0 .. BASE58_COUNT - 1
    THEN [err |-> TRUE, bad |-> TRUE, val |-> <<>>]
    ELSE base58_decode_loop(s, 1, [j \in 1 .. length |-> 0], FALSE)

\* b[0:n]
Take(b, n) == SubSeq(b, 1, IF n < Len(b) THEN n ELSE Len(b))

(***************************************************************************)
(* randoms.py: random_bbs(bit_length) returns a number of bit_length bits  *)
(* drawn from random primes: any of them.                                  *)
(***************************************************************************)
random_bbs(bit_len) == 0 .. Pow(2, bit_len) - 1

(***************************************************************************)
(* keys.py: the cached getters.  Each call is the value returned and the   *)
(* object after the call.                                                  *)
(***************************************************************************)
ADDRESS_PREFIX_MAINNET == 0

ADDRESS_PREFIX_TESTNET == 111

point_to_publickey(point, compressed) ==
    IF compressed
    THEN (IF point.y % 2 = 0 THEN <<2>> ELSE <<3>>) \o int2bytes(point.x, KEY_LEN)
    ELSE <<4>> \o int2bytes(point.x, KEY_LEN) \o int2bytes(point.y, KEY_LEN)

get_public_key(self, compressed) ==
    IF self.public_key = None
    THEN Apply(get_public_point(self), LAMBDA point :
         Apply(point_to_publickey(point, compressed), LAMBDA v :
            [self |-> [self EXCEPT !.public_point = Some(point),
                                   !.public_key = Some(v)],
             val |-> v]))
    ELSE [self |-> self, val |-> self.public_key[1]]

get_pubkey_hash(self) ==
    IF self.public_key_hash = None
    THEN Apply(get_public_key(self, TRUE), LAMBDA c :
         Apply(ripemd160(sha256(c.val)), LAMBDA v :
            [self |-> [c.self EXCEPT !.public_key_hash = Some(v)], val |-> v]))
    ELSE [self |-> self, val |-> self.public_key_hash[1]]

RECURSIVE leading_zeros(_)
leading_zeros(t) ==
    IF Len(t) = 0 \/ t[1] # 0 THEN 0 ELSE 1 + leading_zeros(Tail(t))

\* get_address(version); version is None or a byte
get_address(self, version) ==
    LET ver == IF version = None THEN ADDRESS_PREFIX_MAINNET ELSE version[1]
    IN  IF self.address = None
        THEN Apply(get_pubkey_hash(self), LAMBDA c :
             Apply(<<ver>> \o c.val, LAMBDA t0 :
             Apply(t0 \o Take(sha256(sha256(t0)), 4), LAMBDA t :
             Apply([j \in 1 .. leading_zeros(t) |-> 0] \o base58_encode(t), LAMBDA v :
                [self |-> [c.self EXCEPT !.address = Some(v)], val |-> v]))))
        ELSE [self |-> self, val |-> self.address[1]]

(***************************************************************************)
(* ecpoint.py: get_secp256k1_y.  An AssertionError is the result with err  *)
(* set.                                                                    *)
(***************************************************************************)
\* pow(b, e, m)
RECURSIVE ModPow(_, _, _)
ModPow(b, e, m) ==
    IF e = 0 THEN 1 % m
    ELSE LET h == ModPow(b, e \div 2, m)
         IN  IF e % 2 = 0 THEN (h * h) % m ELSE (((h * h) % m) * (b % m)) % m

get_secp256k1_y(x) ==
    LET y == ModPow(x * x * x + x * SECP256K1_A + SECP256K1_B,
                    (SECP256K1_P + 1) \div 4, SECP256K1_P)
    IN  [err |-> ~is_contained(x, y, SECP256K1_A, SECP256K1_B, SECP256K1_P),
         val |-> y]

(***************************************************************************)
(* bip32.py: ExtendedKey.  A key is bytes (an extended private key) or an  *)
(* ECPoint (an extended public key).  A call that can raise returns the    *)
(* name of the exception in err (NoError when it returns) with its value.  *)
(* The 4-byte fingerprint, being the head of a digest, and the 4-byte      *)
(* checksum are as long as the model's digests.                            *)
(***************************************************************************)
MAINNET_PUBLIC == <<4, 136, 178, 30>>

MAINNET_PRIVATE == <<4, 136, 173, 228>>

FINGERPRINT_LEN == 1

CHECKSUM_LEN == 1

\* the 78 bytes before the checksum, and the 82 bytes of a serialized key
SER_PAYLOAD_LEN ==
    Len(MAINNET_PRIVATE) + 1 + FINGERPRINT_LEN + INDEX_LEN + KEY_LEN + 1 + KEY_LEN

SER_LEN == SER_PAYLOAD_LEN + CHECKSUM_LEN

NoError == ""

Raise(kind) == [err |-> kind, val |-> None]

Return(v) == [err |-> NoError, val |-> v]

BytesKey(b) == [kind |-> "bytes", bytes |-> b, point |-> infinity]

PointKey(pt) == [kind |-> "point", bytes |-> <<>>, point |-> pt]

is_public(self) == self.key.kind = "point"

is_private(self) == self.key.kind = "bytes"

\* ExtendedKey.__init__
ExtendedKey(key, chain_code, level, index, fingerprint) ==
    [key |-> key, chain_code |-> chain_code, level |-> level, index |-> index,
     fingerprint |-> fingerprint]

\* the defaults of ExtendedKey.__init__: level 0, index 0, fingerprint zeros
ExtendedKey_default(key, chain_code) ==
    ExtendedKey(key, chain_code, 0, 0, [j \in 1 .. FINGERPRINT_LEN |-> 0])

\* ser_key[a:b] of Python, a and b counted from 0
Slice(b, from, to) == SubSeq(b, from + 1, IF to < Len(b) THEN to ELSE Len(b))

serialize(self) ==
    IF ~is_private(self) /\ ~is_public(self) THEN Raise("ValueError")
    ELSE IF ~int2bytes_fits(self.level, 1) \/ ~int2bytes_fits(self.index, INDEX_LEN)
    THEN Raise("OverflowError")
    ELSE Apply((IF is_private(self) THEN MAINNET_PRIVATE ELSE MAINNET_PUBLIC)
               \o int2bytes(self.level, 1)
               \o self.fingerprint
               \o int2bytes(self.index, INDEX_LEN)
               \o self.chain_code
               \o (IF is_private(self) THEN <<0>> \o self.key.bytes
                   ELSE point_to_publickey(self.key.point, TRUE)),
         LAMBDA ser_key :
         Apply(Take(sha256(sha256(ser_key)), 4), LAMBDA checksum :
            Return(base58_encode(ser_key \o checksum))))

\* the branch for MAINNET_PUBLIC taking the root as computed, whatever the
\* prefix byte is
deserialize_point_any_root(ser_key) ==
    LET x  == bytes2int(Slice(ser_key, SER_PAYLOAD_LEN - KEY_LEN, SER_PAYLOAD_LEN))
        ry == get_secp256k1_y(x)
    IN  IF ry.err \/ ~ECPoint_init_ok(x, ry.val) THEN Raise("AssertionError")
        ELSE Return(PointKey(Pt(x, ry.val)))

\* the branch of deserialize for MAINNET_PUBLIC: self.key, or the assertion
\* of get_secp256k1_y / ECPoint.__init__ failing
deserialize_point(ser_key) ==
    LET off == SER_PAYLOAD_LEN - KEY_LEN
        x   == bytes2int(Slice(ser_key, off, SER_PAYLOAD_LEN))
        ry  == get_secp256k1_y(x)
        y   == IF ser_key[off] = 2
               THEN (IF ry.val % 2 # 0 THEN SECP256K1_P - ry.val ELSE ry.val)
               ELSE (IF ry.val % 2 = 0 THEN SECP256K1_P - ry.val ELSE ry.val)
    IN  IF ry.err \/ ~ECPoint_init_ok(x, y) THEN Raise("AssertionError")
        ELSE Return(PointKey(Pt(x, y)))

\* deserialize below the checksum test: the fields are assigned, then the
\* key by the version
deserialize_assign(self, ser_key) ==
    Apply([self EXCEPT
             !.level = ser_key[5],
             !.fingerprint = Slice(ser_key, 5, 5 + FINGERPRINT_LEN),
             !.index = bytes2int(Slice(ser_key, 5 + FINGERPRINT_LEN,
                                       5 + FINGERPRINT_LEN + INDEX_LEN)),
             !.chain_code = Slice(ser_key, 5 + FINGERPRINT_LEN + INDEX_LEN,
                                  5 + FINGERPRINT_LEN + INDEX_LEN + KEY_LEN)],
    LAMBDA s1 :
    IF Slice(ser_key, 0, 4) = MAINNET_PRIVATE
    THEN [err |-> NoError,
          self |-> [s1 EXCEPT !.key = BytesKey(Slice(ser_key,
                        SER_PAYLOAD_LEN - KEY_LEN, SER_PAYLOAD_LEN))]]
    ELSE IF Slice(ser_key, 0, 4) = MAINNET_PUBLIC
    THEN Apply(deserialize_point(ser_key), LAMBDA k :
         IF k.err # NoError THEN [err |-> k.err, self |-> s1]
         ELSE [err |-> NoError, self |-> [s1 EXCEPT !.key = k.val]])
    ELSE [err |-> "ValueError", self |-> s1])

\* deserialize without its test of the checksum
deserialize_no_checksum(self, ser_str) ==
    Apply(base58_decode(ser_str, SER_LEN), LAMBDA dec :
    IF dec.err
    THEN [err |-> IF dec.bad THEN "ValueError" ELSE "OverflowError", self |-> self]
    ELSE deserialize_assign(self, dec.val))

\* deserialize(self, ser_key): err, and self after the call
deserialize(self, ser_str) ==
    Apply(base58_decode(ser_str, SER_LEN), LAMBDA dec :
    IF dec.err
    THEN [err |-> IF dec.bad THEN "ValueError" ELSE "OverflowError", self |-> self]
    ELSE IF Take(sha256(sha256(Slice(dec.val, 0, SER_PAYLOAD_LEN))), 4)
                # Slice(dec.val, SER_PAYLOAD_LEN, SER_LEN)
    THEN [err |-> "ValueError", self |-> self]
    ELSE deserialize_assign(self, dec.val))

\* a fingerprint that is the head of the SHA-256 alone
get_fingerprint_sha256(public_key) == Take(sha256(public_key), 4)

get_fingerprint(public_key) == Take(ripemd160(sha256(public_key)), 4)

\* b"Bitcoin seed"
BITCOIN_SEED == <<66, 105, 116, 99, 111, 105, 110, 32, 115, 101, 101, 100>>

\* seed_to_master_key that takes any key_int but 0
seed_to_master_key_zero_only(seed) ==
    Apply(hmac_sha512(BITCOIN_SEED, seed), LAMBDA hash :
        IF bytes2int(Take(hash, KEY_LEN)) = 0 THEN Raise("ValueError")
        ELSE Return(ExtendedKey_default(BytesKey(Take(hash, KEY_LEN)),
                                        Slice(hash, KEY_LEN, Len(hash)))))

seed_to_master_key(seed) ==
    Apply(hmac_sha512(BITCOIN_SEED, seed), LAMBDA hash :
    Apply(bytes2int(Take(hash, KEY_LEN)), LAMBDA key_int :
        IF key_int = 0 \/ key_int >= SECP256K1_ORDER THEN Raise("ValueError")
        ELSE Return(ExtendedKey_default(BytesKey(Take(hash, KEY_LEN)),
                                        Slice(hash, KEY_LEN, Len(hash))))))

(***************************************************************************)
(* keys.py: address_to_pubkey_hash.  The 25 bytes of an address are the    *)
(* version byte, the public key hash and the checksum.                     *)
(***************************************************************************)
\* address.lstrip("1"): "1" is the character of index 0
RECURSIVE lstrip1(_)
lstrip1(s) == IF Len(s) = 0 \/ s[1] # 0 THEN s ELSE lstrip1(Tail(s))

ADDRESS_LEN == 1 + KEY_LEN + CHECKSUM_LEN

\* KeysBTC.address_to_pubkey_hash(address)
address_to_pubkey_hash(address) ==
    Apply(base58_decode(lstrip1(address), ADDRESS_LEN), LAMBDA t :
        IF t.err THEN Raise(IF t.bad THEN "ValueError" ELSE "OverflowError")
        ELSE IF Take(sha256(sha256(Slice(t.val, 0, 1 + KEY_LEN))), 4)
                  = Slice(t.val, 1 + KEY_LEN, ADDRESS_LEN)
        THEN Return(Slice(t.val, 1, 1 + KEY_LEN))
        ELSE Raise("ValueError"))

(***************************************************************************)
(* keys.py: the WIF of a private key.  Its 38 bytes are the version byte,  *)
(* the key, the compression flag and the checksum.                         *)
(***************************************************************************)
WIF_LEN == 1 + KEY_LEN + 1 + CHECKSUM_LEN

\* the bytes privatekey_to_wif encodes, before the checksum
wif_body(private_key, compressed) ==
    <<128>> \o private_key \o (IF compressed THEN <<1>> ELSE <<>>)

privatekey_to_wif(private_key, compressed) ==
    Apply(wif_body(private_key, compressed), LAMBDA wif :
        Return(base58_encode(wif \o Take(sha256(sha256(wif)), 4))))

privatekey_from_wif(wif) ==
    Apply(base58_decode(wif, WIF_LEN), LAMBDA p :
        IF p.err THEN Raise("ValueError")
        ELSE Return(Slice(p.val, 1, 1 + KEY_LEN)))

(***************************************************************************)
(* bip32.py: BIP32.  An entry of keys_path, like the parent a derivation   *)
(* is given, is an ExtendedKey, None, or the str of a caught ValueError.   *)
(***************************************************************************)
HARDENED == Pow(2, 8 * INDEX_LEN - 1)

hardened_index(index) == index + HARDENED

KeyEntry(k) == [kind |-> "key", key |-> <<k>>]

NoneEntry == [kind |-> "None", key |-> <<>>]

StrEntry == [kind |-> "str", key |-> <<>>]

\* the child ExtendedKey of prv_to_child, the KeysBTC assertion passed
prv_to_child_derive(parent_prv, index) ==
    LET cur_key == KeysBTC_new(parent_prv.key.bytes)
        ser32_index == int2bytes(index, INDEX_LEN)
    IN  Apply(get_public_key(cur_key, TRUE).val, LAMBDA public_key :
        Apply(hmac_sha512(parent_prv.chain_code,
                          IF index >= HARDENED
                          THEN <<0>> \o cur_key.private_key \o ser32_index
                          ELSE public_key \o ser32_index), LAMBDA child_hash :
        Apply(bytes2int(Take(child_hash, KEY_LEN)), LAMBDA child_hash_left :
        Apply((child_hash_left + get_private_key_int(cur_key)) % SECP256K1_ORDER,
        LAMBDA k_i :
            IF child_hash_left >= SECP256K1_ORDER \/ k_i = 0
            THEN Raise("ValueError")
            ELSE Return(ExtendedKey(BytesKey(int2bytes(k_i, KEY_LEN)),
                                    Slice(child_hash, KEY_LEN, Len(child_hash)),
                                    parent_prv.level + 1, index,
                                    get_fingerprint(public_key)))))))

\* prv_to_child(parent_prv, index); parent_prv is an entry of keys_path
prv_to_child(parent_prv, index) ==
    IF parent_prv.kind # "key" THEN Raise("AttributeError")
    ELSE IF ~is_private(parent_prv.key[1]) THEN Raise("TypeError")
    ELSE IF ~KeysBTC_init_ok(parent_prv.key[1].key.bytes) THEN Raise("AssertionError")
    ELSE IF ~int2bytes_fits(index, INDEX_LEN) THEN Raise("OverflowError")
    ELSE prv_to_child_derive(parent_prv.key[1], index)

\* pub_to_child below the test of a hardened index
pub_to_child_derive(parent_pub, index) ==
    IF ~int2bytes_fits(index, INDEX_LEN) THEN Raise("OverflowError")
    ELSE IF parent_pub.kind # "key" THEN Raise("AttributeError")
    ELSE IF ~is_public(parent_pub.key[1]) THEN Raise("AttributeError")
    ELSE Apply(parent_pub.key[1], LAMBDA parent :
         Apply(point_to_publickey(parent.key.point, TRUE), LAMBDA public_key :
         Apply(hmac_sha512(parent.chain_code,
                           public_key \o int2bytes(index, INDEX_LEN)),
         LAMBDA child_hash :
         Apply(bytes2int(Take(child_hash, KEY_LEN)), LAMBDA child_hash_left :
         Apply(PointPlus(multiply(get_generator_point, child_hash_left),
                         parent.key.point), LAMBDA K_i :
            IF child_hash_left >= SECP256K1_ORDER \/ K_i = infinity
            THEN Raise("ValueError")
            ELSE Return(ExtendedKey(PointKey(K_i),
                                    Slice(child_hash, KEY_LEN, Len(child_hash)),
                                    parent.level + 1, index,
                                    get_fingerprint(public_key))))))))

\* pub_to_child without its test of a hardened index
pub_to_child_unchecked(parent_pub, index) == pub_to_child_derive(parent_pub, index)

\* pub_to_child(parent_pub, index); parent_pub is an entry of keys_path
pub_to_child(parent_pub, index) ==
    IF index >= HARDENED THEN Raise("ValueError")
    ELSE pub_to_child_derive(parent_pub, index)

\* BIP32.__init__(master, level_indexes): the object, or the exception
BIP32_init(master, level_indexes) ==
    IF is_private(master)
    THEN IF ~KeysBTC_init_ok(master.key.bytes) THEN Raise("AssertionError")
         ELSE Return([level_indexes |-> level_indexes,
                      master_prv |-> KeyEntry(master),
                      master_pub |-> KeyEntry(ExtendedKey_default(
                          PointKey(get_public_point(KeysBTC_new(master.key.bytes))),
                          master.chain_code)),
                      keys_path |-> <<>>])
    ELSE IF is_public(master)
    THEN Return([level_indexes |-> level_indexes,
                 master_prv |-> NoneEntry,
                 master_pub |-> KeyEntry(master),
                 keys_path |-> <<>>])
    ELSE Raise("ValueError")

\* one side of a level of build_keys_path: the try / except ValueError
try_child(parent, r) ==
    IF parent.kind = "None" THEN Return(parent)
    ELSE IF r.err = "ValueError" THEN Return(StrEntry)
    ELSE IF r.err # NoError THEN Raise(r.err)
    ELSE Return(KeyEntry(r.val))

\* the for loop of build_keys_path from level on: err, and keys_path
RECURSIVE build_keys_loop(_, _, _, _, _)
build_keys_loop(keys_path, parent_prv, parent_pub, level_indexes, level) ==
    IF level > Len(level_indexes) THEN [err |-> NoError, keys_path |-> keys_path]
    ELSE Apply(try_child(parent_prv, prv_to_child(parent_prv, level_indexes[level])),
         LAMBDA prv :
         IF prv.err # NoError THEN [err |-> prv.err, keys_path |-> keys_path]
         ELSE Apply(try_child(parent_pub, pub_to_child(parent_pub, level_indexes[level])),
              LAMBDA pub :
              IF pub.err # NoError THEN [err |-> pub.err, keys_path |-> keys_path]
              ELSE build_keys_loop(
                       Append(keys_path, [private |-> prv.val, public |-> pub.val]),
                       prv.val, pub.val, level_indexes, level + 1)))

\* build_keys_path that leaves the last keys of the path as the master keys
build_keys_path_moving_master(self, level_indexes) ==
    LET indexes == IF Len(level_indexes) > 0 THEN level_indexes
                   ELSE self.level_indexes
    IN  Apply(build_keys_loop(<<[private |-> self.master_prv,
                                 public |-> self.master_pub]>>,
                              self.master_prv, self.master_pub, indexes, 1),
        LAMBDA r :
            [err |-> r.err,
             self |-> [self EXCEPT !.level_indexes = indexes,
                                   !.keys_path = r.keys_path,
                                   !.master_prv = r.keys_path[Len(r.keys_path)].private,
                                   !.master_pub = r.keys_path[Len(r.keys_path)].public]])

\* build_keys_path(level_indexes): err, and self after the call
build_keys_path(self, level_indexes) ==
    LET indexes == IF Len(level_indexes) > 0 THEN level_indexes
                   ELSE self.level_indexes
    IN  Apply(build_keys_loop(<<[private |-> self.master_prv,
                                 public |-> self.master_pub]>>,
                              self.master_prv, self.master_pub, indexes, 1),
        LAMBDA r :
            [err |-> r.err,
             self |-> [self EXCEPT !.level_indexes = indexes,
                                   !.keys_path = r.keys_path]])

\* [child(parent, index) for index in index_list]: err, and the list
RECURSIVE derive_list(_, _, _, _)
derive_list(priv, parent, index_list, done) ==
    IF Len(index_list) = 0 THEN Return(done)
    ELSE Apply(IF priv THEN prv_to_child(parent, Head(index_list))
               ELSE pub_to_child(parent, Head(index_list)), LAMBDA r :
         IF r.err # NoError THEN Raise(r.err)
         ELSE derive_list(priv, parent, Tail(index_list), Append(done, r.val)))

\* ckd_priv(index_list): err, the list returned, and self after the call
ckd_priv(self, index_list) ==
    Apply(build_keys_path(self, <<>>), LAMBDA b :
    IF b.err # NoError THEN [err |-> b.err, val |-> None, self |-> b.self]
    ELSE Apply(derive_list(TRUE, b.self.keys_path[Len(b.self.keys_path)].private,
                           index_list, <<>>), LAMBDA r :
         [err |-> r.err, val |-> r.val, self |-> b.self]))

\* ckd_pub(index_list): err, the list returned, and self after the call
ckd_pub(self, index_list) ==
    Apply(build_keys_path(self, <<>>), LAMBDA b :
    IF b.err # NoError THEN [err |-> b.err, val |-> None, self |-> b.self]
    ELSE Apply(derive_list(FALSE, b.self.keys_path[Len(b.self.keys_path)].public,
                           index_list, <<>>), LAMBDA r :
         [err |-> r.err, val |-> r.val, self |-> b.self]))

(***************************************************************************)
(* The curve's points, for the inputs of the checks.                       *)
(***************************************************************************)
CurvePoints ==
    {pt \in [x : 0 .. SECP256K1_P - 1, y : 0 .. SECP256K1_P - 1] :
        /\ pt # infinity
        /\ is_contained(pt.x, pt.y, SECP256K1_A, SECP256K1_B, SECP256K1_P)}

(***************************************************************************)
(* Each specification runs one part of the library and leaves the          *)
(* variables of the other parts at rest.                                   *)
(***************************************************************************)
ECIdle == ecIn = None /\ ecOut = None

SignIdle == sgIn = None /\ sgOut = None

KeysIdle == kyObj = None /\ kyRet = None /\ kyFirst = None

XKeyIdle == xkIn = None /\ xkOut = None

Bip32Idle == bpObj = None /\ bpRet = None

WifIdle == wfIn = None /\ wfOut = None

TxIdle == txObj = None /\ txRet = None

ECOthersIdle == SignIdle /\ KeysIdle /\ XKeyIdle /\ Bip32Idle /\ WifIdle /\ TxIdle

ECOthers == <<sgVars, kyVars, xkVars, bpVars, wfVars, txVars>>

SignOthersIdle == ECIdle /\ KeysIdle /\ XKeyIdle /\ Bip32Idle /\ WifIdle /\ TxIdle

SignOthers == <<ecVars, kyVars, xkVars, bpVars, wfVars, txVars>>

KeysOthersIdle == ECIdle /\ SignIdle /\ XKeyIdle /\ Bip32Idle /\ WifIdle /\ TxIdle

KeysOthers == <<ecVars, sgVars, xkVars, bpVars, wfVars, txVars>>

XKeyOthersIdle == ECIdle /\ SignIdle /\ KeysIdle /\ Bip32Idle /\ WifIdle /\ TxIdle

XKeyOthers == <<ecVars, sgVars, kyVars, bpVars, wfVars, txVars>>

Bip32OthersIdle == ECIdle /\ SignIdle /\ KeysIdle /\ XKeyIdle /\ WifIdle /\ TxIdle

Bip32Others == <<ecVars, sgVars, kyVars, xkVars, wfVars, txVars>>

WifOthersIdle == ECIdle /\ SignIdle /\ KeysIdle /\ XKeyIdle /\ Bip32Idle /\ TxIdle

WifOthers == <<ecVars, sgVars, kyVars, xkVars, bpVars, txVars>>

TxOthersIdle ==
    ECIdle /\ SignIdle /\ KeysIdle /\ XKeyIdle /\ Bip32Idle /\ WifIdle

TxOthers == <<ecVars, sgVars, kyVars, xkVars, bpVars, wfVars>>

(***************************************************************************)
(* Specification SpecEC: the point operations as pure functions.  Init     *)
(* draws a call, the action runs it.                                       *)
(***************************************************************************)
MaxScalar == 3

ECCalls ==
    [op : {"multiply"}, P : CurvePoints, k : 0 .. MaxScalar, a : {0}, b : {0}]
    \cup
    [op : {"sum"}, P : {get_generator_point}, k : {0},
     a : 1 .. SECP256K1_ORDER - 1, b : 1 .. SECP256K1_ORDER - 1]

ECInit ==
    /\ ecIn \in ECCalls
    /\ ecOut = [done |-> FALSE, res |-> infinity, lhs |-> infinity, rhs |-> infinity]
    /\ ECOthersIdle

RunMultiply ==
    /\ ~ecOut.done
    /\ ecIn.op = "multiply"
    /\ ecOut' = [ecOut EXCEPT !.done = TRUE, !.res = multiply(ecIn.P, ecIn.k)]
    /\ UNCHANGED <<ecIn, ECOthers>>

RunSum ==
    /\ ~ecOut.done
    /\ ecIn.op = "sum"
    /\ ecOut' = [ecOut EXCEPT
                   !.done = TRUE,
                   !.lhs = multiply(ecIn.P, (ecIn.a + ecIn.b) % SECP256K1_ORDER),
                   !.rhs = add(multiply(ecIn.P, ecIn.a), multiply(ecIn.P, ecIn.b))]
    /\ UNCHANGED <<ecIn, ECOthers>>

ECNext == RunMultiply \/ RunSum

SpecEC == ECInit /\ [][ECNext]_vars

\* C2: multiply(P, 0) is the point at infinity for every curve point P.
C2_MultiplyByZeroIsInfinity ==
    (ecOut.done /\ ecIn.op = "multiply" /\ ecIn.k = 0) => ecOut.res = infinity

\* C3: multiply(G, (a + b) mod n) = add(multiply(G, a), multiply(G, b)) for
\* all a, b in [1, n), the pairs with a + b = n included.
C3_MultiplyIsAdditive ==
    (ecOut.done /\ ecIn.op = "sum") => ecOut.lhs = ecOut.rhs

(***************************************************************************)
(* Specification SpecPoint: one call on ECPoint: the constructor with any  *)
(* pair of small coordinates, add with any two points of the curve or      *)
(* infinity, double with any of them, multiply with any of them and a      *)
(* scalar that is small or around the order.                               *)
(***************************************************************************)
MaxCoord == 40

PointsOrInfinity == CurvePoints \cup {infinity}

PointScalars ==
    (0 .. MaxScalar) \cup (SECP256K1_ORDER - 1 .. SECP256K1_ORDER + 1)

PointCalls ==
    [op : {"ECPoint"}, P : [x : 0 .. MaxCoord, y : 0 .. MaxCoord],
     Q : {infinity}, k : {0}]
    \cup [op : {"add"}, P : PointsOrInfinity, Q : PointsOrInfinity, k : {0}]
    \cup [op : {"double"}, P : PointsOrInfinity, Q : {infinity}, k : {0}]
    \cup [op : {"multiply"}, P : PointsOrInfinity, Q : {infinity}, k : PointScalars]

PointInit ==
    /\ ecIn \in PointCalls
    /\ ecOut = [done |-> FALSE, err |-> FALSE, res |-> infinity]
    /\ ECOthersIdle

NewPoint ==
    /\ ~ecOut.done /\ ecIn.op = "ECPoint"
    /\ ecOut' = IF ECPoint_init_ok(ecIn.P.x, ecIn.P.y)
                THEN [done |-> TRUE, err |-> FALSE, res |-> ecIn.P]
                ELSE [done |-> TRUE, err |-> TRUE, res |-> infinity]
    /\ UNCHANGED <<ecIn, ECOthers>>

RunAdd ==
    /\ ~ecOut.done /\ ecIn.op = "add"
    /\ ecOut' = [done |-> TRUE, err |-> FALSE, res |-> add(ecIn.P, ecIn.Q)]
    /\ UNCHANGED <<ecIn, ECOthers>>

RunDouble ==
    /\ ~ecOut.done /\ ecIn.op = "double"
    /\ ecOut' = [done |-> TRUE, err |-> FALSE, res |-> double(ecIn.P)]
    /\ UNCHANGED <<ecIn, ECOthers>>

RunMultiplyPoint ==
    /\ ~ecOut.done /\ ecIn.op = "multiply"
    /\ ecOut' = [done |-> TRUE, err |-> FALSE, res |-> multiply(ecIn.P, ecIn.k)]
    /\ UNCHANGED <<ecIn, ECOthers>>

PointNext == NewPoint \/ RunAdd \/ RunDouble \/ RunMultiplyPoint

SpecPoint == PointInit /\ [][PointNext]_vars

(***************************************************************************)
(* Specification SpecInverse: one call of mod_inverse(a, m) for a modulus  *)
(* m >= 2 and an integer a of either sign.                                 *)
(***************************************************************************)
MaxInverseArg == 20

MaxModulus == 20

InverseInit ==
    /\ ecIn \in [a : (0 - MaxInverseArg) .. MaxInverseArg, m : 2 .. MaxModulus]
    /\ ecOut = [done |-> FALSE, res |-> [err |-> FALSE, val |-> 0]]
    /\ ECOthersIdle

RunModInverse ==
    /\ ~ecOut.done
    /\ ecOut' = [done |-> TRUE, res |-> mod_inverse(ecIn.a, ecIn.m)]
    /\ UNCHANGED <<ecIn, ECOthers>>

InverseNext == RunModInverse

SpecInverse == InverseInit /\ [][InverseNext]_vars

(***************************************************************************)
(* Specification SpecSign: sign, then verify, on a fresh key object, for   *)
(* every private scalar in [1, n) and every digest.                        *)
(***************************************************************************)
Digests == {<<b>> : b \in Byte}

SignInit ==
    /\ sgIn \in [d : 1 .. SECP256K1_ORDER - 1, digest : Digests]
    /\ sgOut = [pc |-> "start", k |-> 0, r |-> <<>>, s |-> <<>>,
                ver |-> [err |-> FALSE, val |-> FALSE]]
    /\ SignOthersIdle

RunSign ==
    /\ sgOut.pc = "start"
    /\ LET key == KeysBTC_new(int2bytes(sgIn.d, KEY_LEN))
           sig == sign(key, sgIn.digest)
       IN  sgOut' = [sgOut EXCEPT !.pc = "signed", !.k = sig.k, !.r = sig.r, !.s = sig.s]
    /\ UNCHANGED <<sgIn, SignOthers>>

RunVerify ==
    /\ sgOut.pc = "signed"
    /\ LET key == KeysBTC_new(int2bytes(sgIn.d, KEY_LEN))
       IN  sgOut' = [sgOut EXCEPT !.pc = "verified",
                                  !.ver = verify(key, sgIn.digest, sgOut.r, sgOut.s)]
    /\ UNCHANGED <<sgIn, SignOthers>>

SignNext == RunSign \/ RunVerify

SpecSign == SignInit /\ [][SignNext]_vars

\* C1: for every private scalar d in [1, n) and every digest, verify accepts
\* the signature sign returned for the same key and digest.
C1_VerifyAcceptsSign ==
    sgOut.pc = "verified" => sgOut.ver = [err |-> FALSE, val |-> TRUE]

\* C9: every signature sign returns has 1 <= r < n and 1 <= s < n, with
\* r = (k * G).x mod n.
C9_SignatureInRange ==
    sgOut.pc \in {"signed", "verified"} =>
        LET r == bytes2int(sgOut.r)
            s == bytes2int(sgOut.s)
        IN  /\ 1 <= r /\ r < SECP256K1_ORDER
            /\ 1 <= s /\ s < SECP256K1_ORDER
            /\ r = multiply(get_generator_point, sgOut.k).x % SECP256K1_ORDER

(***************************************************************************)
(* Specification SpecNonce: one call of random_rfc6979, step by step: the  *)
(* preparation (steps a to g), then the loop of step h, which draws a      *)
(* candidate, tests it, and returns it or makes one more round.  sgOut     *)
(* holds the position in the call, k, v, the candidate, the candidates     *)
(* refused so far and k, v as they were before the last round.             *)
(***************************************************************************)
MaxNonceKey == 3

NonceInit ==
    /\ sgIn \in [message : Digests, x : 1 .. MaxNonceKey, useGen : BOOLEAN]
    /\ sgOut = [pc |-> "a", k |-> <<>>, v |-> <<>>, kk |-> 0,
                refused |-> <<>>, before |-> <<>>]
    /\ SignOthersIdle

Prepare ==
    /\ sgOut.pc = "a"
    /\ LET g == rfc_prepare(sgIn.message, sgIn.x, SECP256K1_ORDER)
       IN  sgOut' = [sgOut EXCEPT !.pc = "h", !.k = g.k, !.v = g.v]
    /\ UNCHANGED <<sgIn, SignOthers>>

DrawCandidate ==
    /\ sgOut.pc = "h"
    /\ LET f == rfc_fill(sgOut.k, sgOut.v, <<>>, SECP256K1_ORDER)
       IN  sgOut' = [sgOut EXCEPT !.pc = "test", !.v = f.v,
                                  !.kk = bits2int(f.t, SECP256K1_ORDER)]
    /\ UNCHANGED <<sgIn, SignOthers>>

ReturnCandidate ==
    /\ sgOut.pc = "test"
    /\ rfc_accepts(sgOut.kk, SECP256K1_ORDER, sgIn.useGen, get_generator_point)
    /\ sgOut' = [sgOut EXCEPT !.pc = "returned"]
    /\ UNCHANGED <<sgIn, SignOthers>>

RetryCandidate ==
    /\ sgOut.pc = "test"
    /\ ~rfc_accepts(sgOut.kk, SECP256K1_ORDER, sgIn.useGen, get_generator_point)
    /\ LET n == rfc_retry(sgOut.k, sgOut.v)
       IN  sgOut' = [sgOut EXCEPT !.pc = "h", !.k = n.k, !.v = n.v,
                                  !.refused = Append(@, sgOut.kk),
                                  !.before = <<[k |-> sgOut.k, v |-> sgOut.v]>>]
    /\ UNCHANGED <<sgIn, SignOthers>>

NonceNext == Prepare \/ DrawCandidate \/ ReturnCandidate \/ RetryCandidate

SpecNonce == NonceInit /\ [][NonceNext]_vars

(***************************************************************************)
(* Specification SpecVerify: one call of verify on a fresh key object with *)
(* a digest and a pair (r, s) that came from anywhere: r is a small value  *)
(* or one from the order up to the field's prime, s is any value below     *)
(* the order, 0 included.                                                  *)
(***************************************************************************)
MaxVerifyKey == 2

MaxVerifyDigest == 1

MaxSigR == 23

VerifyInit ==
    /\ sgIn \in [d : 1 .. MaxVerifyKey,
                 digest : {<<h>> : h \in 0 .. MaxVerifyDigest},
                 r : (0 .. MaxSigR) \cup (SECP256K1_ORDER .. SECP256K1_P - 1),
                 s : 0 .. SECP256K1_ORDER - 1]
    /\ sgOut = [pc |-> "given", ver |-> [err |-> FALSE, val |-> FALSE]]
    /\ SignOthersIdle

RunVerifyGiven ==
    /\ sgOut.pc = "given"
    /\ LET key == KeysBTC_new(int2bytes(sgIn.d, KEY_LEN))
       IN  sgOut' = [pc |-> "verdict",
                     ver |-> verify(key, sgIn.digest, int2bytes(sgIn.r, KEY_LEN),
                                    int2bytes(sgIn.s, KEY_LEN))]
    /\ UNCHANGED <<sgIn, SignOthers>>

VerifyNext == RunVerifyGiven

SpecVerify == VerifyInit /\ [][VerifyNext]_vars

(***************************************************************************)
(* Specification SpecKeys: one KeysBTC object, constructed from supplied   *)
(* bytes or from random_bbs, then any sequence of calls on it.             *)
(***************************************************************************)
MaxKeyInt == 0

MaxDigest == 1

\* the scalars tried: the small ones, and those around the order and the top
KeyInts == (0 .. MaxKeyInt) \cup {SECP256K1_ORDER - 1, SECP256K1_ORDER, 255}

KyDigests == {<<b>> : b \in 0 .. MaxDigest}

KyVersions == {None, <<ADDRESS_PREFIX_MAINNET>>, <<ADDRESS_PREFIX_TESTNET>>}

KyReturn(op, arg, err, val) == [op |-> op, arg |-> arg, err |-> err, val |-> val]

KeysInit ==
    /\ kyObj = None
    /\ kyRet = KyReturn("none", <<>>, FALSE, <<>>)
    /\ kyFirst = [dg \in KyDigests |-> None]
    /\ KeysOthersIdle

\* KeysBTC.__init__(private_key), private_key given as bytes or None
KeysBTC_init(how, private_key) ==
    /\ kyObj = None
    /\ IF KeysBTC_init_ok(private_key)
       THEN /\ kyObj' = Some(KeysBTC_new(private_key))
            /\ kyRet' = KyReturn("init", <<how, private_key>>, FALSE, <<>>)
       ELSE /\ kyObj' = None
            /\ kyRet' = KyReturn("init", <<how, private_key>>, TRUE, <<>>)
    /\ UNCHANGED <<kyFirst, KeysOthers>>

ConstructSupplied ==
    \E v \in KeyInts : KeysBTC_init("supplied", int2bytes(v, KEY_LEN))

ConstructGenerated ==
    \E num \in random_bbs(bit_length(SECP256K1_ORDER)) \cap KeyInts :
        KeysBTC_init("generated", int2bytes(num, KEY_LEN))

CallGetPublicPoint ==
    /\ kyObj # None
    /\ kyObj' = Some(after_get_public_point(kyObj[1]))
    /\ kyRet' = KyReturn("get_public_point", <<>>, FALSE, get_public_point(kyObj[1]))
    /\ UNCHANGED <<kyFirst, KeysOthers>>

CallGetPublicKey ==
    \E compressed \in BOOLEAN :
        /\ kyObj # None
        /\ LET c == get_public_key(kyObj[1], compressed)
           IN  /\ kyObj' = Some(c.self)
               /\ kyRet' = KyReturn("get_public_key", <<compressed>>, FALSE, c.val)
        /\ UNCHANGED <<kyFirst, KeysOthers>>

CallGetPubkeyHash ==
    /\ kyObj # None
    /\ LET c == get_pubkey_hash(kyObj[1])
       IN  /\ kyObj' = Some(c.self)
           /\ kyRet' = KyReturn("get_pubkey_hash", <<>>, FALSE, c.val)
    /\ UNCHANGED <<kyFirst, KeysOthers>>

CallGetAddress ==
    \E version \in KyVersions :
        /\ kyObj # None
        /\ LET c == get_address(kyObj[1], version)
           IN  /\ kyObj' = Some(c.self)
               /\ kyRet' = KyReturn("get_address", <<version>>, FALSE, c.val)
        /\ UNCHANGED <<kyFirst, KeysOthers>>

IsFresh(self) ==
    /\ self.public_point = None
    /\ self.public_key = None
    /\ self.public_key_hash = None
    /\ self.address = None

CallSign ==
    \E dg \in KyDigests :
        /\ kyObj # None
        /\ LET sig == sign(kyObj[1], dg)
           IN  /\ kyRet' = KyReturn("sign", <<dg>>, FALSE, <<sig.r, sig.s>>)
               /\ kyFirst' =
                    IF kyFirst[dg] = None
                    THEN [kyFirst EXCEPT ![dg] = Some([sig |-> <<sig.r, sig.s>>,
                                                       fresh |-> IsFresh(kyObj[1])])]
                    ELSE kyFirst
        /\ UNCHANGED <<kyObj, KeysOthers>>

\* verify(hash, r, s) with a signature an earlier sign call returned
CallVerify ==
    \E dg \in KyDigests, of \in KyDigests :
        /\ kyObj # None
        /\ kyFirst[of] # None
        /\ LET sig == kyFirst[of][1].sig
               v   == verify(kyObj[1], dg, sig[1], sig[2])
           IN  /\ kyObj' = IF v.err THEN kyObj
                           ELSE Some(after_get_public_point(kyObj[1]))
               /\ kyRet' = KyReturn("verify", <<dg, sig[1], sig[2]>>, v.err, v.val)
        /\ UNCHANGED <<kyFirst, KeysOthers>>

KeysNext ==
    \/ ConstructSupplied
    \/ ConstructGenerated
    \/ CallGetPublicPoint
    \/ CallGetPublicKey
    \/ CallGetPubkeyHash
    \/ CallGetAddress
    \/ CallSign
    \/ CallVerify

SpecKeys == KeysInit /\ [][KeysNext]_vars

\* C8: two sign calls with the same key and digest return the same (r, s),
\* whatever calls ran on the object in between.
C8_SignIsDeterministic ==
    (kyRet.op = "sign" /\ kyFirst[kyRet.arg[1]] # None) =>
        kyRet.val = kyFirst[kyRet.arg[1]][1].sig

\* C8 witness: a digest first signed on a fresh object is signed again after
\* get_address, get_public_key and a sign of another digest have run.
C8_Witness ==
    /\ kyRet.op = "sign"
    /\ kyFirst[kyRet.arg[1]] # None
    /\ kyFirst[kyRet.arg[1]][1].fresh
    /\ \E dg \in KyDigests : dg # kyRet.arg[1] /\ kyFirst[dg] # None
    /\ kyObj[1].address # None
    /\ kyObj[1].public_key # None

\* C10: a key object exists only for a private scalar in [1, n).
C10_KeyScalarInRange ==
    kyObj # None =>
        /\ 1 <= bytes2int(kyObj[1].private_key)
        /\ bytes2int(kyObj[1].private_key) < SECP256K1_ORDER

(***************************************************************************)
(* SpecXKey: one call on an ExtendedKey.  A round trip serializes a node   *)
(* and deserializes the string into another object; a derivation derives   *)
(* the child of a private parent, then the child of the parent's public    *)
(* key (the point G * scalar with the parent's other fields).              *)
(***************************************************************************)
MaxChain == 1

\* what is added to a checksum byte to make it wrong
MaxDamage == 2

MaxIndex == 1

XKChains == {<<c>> : c \in 0 .. MaxChain}

XKIndexes == (0 .. MaxIndex) \cup {HARDENED - 1, HARDENED, 2 * HARDENED - 1}

XKLevels == {0, 255}

XKFingerprints == {<<0>>, <<255>>}

XKKeys == {BytesKey(<<b>>) : b \in Byte} \cup {PointKey(pt) : pt \in CurvePoints}

XKNodes ==
    {ExtendedKey(k, c, l, i, f) :
        k \in XKKeys, c \in XKChains, l \in XKLevels, i \in XKIndexes,
        f \in XKFingerprints}

\* the objects deserialize is called on: ExtendedKey(bytes(), bytes()), and
\* one that holds a key already
XKTargets ==
    {ExtendedKey_default(BytesKey(<<>>), <<>>),
     ExtendedKey(PointKey(get_generator_point), <<9>>, 3, 5, <<7>>)}

\* the parents of a derivation: a master, its child, and the key 255
\* derivations below a master
XKParents ==
    {ExtendedKey(BytesKey(<<b>>), c, l, 0, <<0>>) :
        b \in Byte, c \in XKChains, l \in {0, 1, 255}}

\* the 4 bytes a given string starts with: the two versions deserialize
\* knows, TESTNET_PRIVATE, and zeros
XKVersions == {MAINNET_PRIVATE, MAINNET_PUBLIC, <<4, 53, 131, 148>>, <<0, 0, 0, 0>>}

\* the 78 bytes of a given string: the key data are a prefix byte and x, which
\* is on the curve (the generator's) or is not (0)
XKPayloads ==
    {v \o <<l>> \o <<0>> \o <<i>> \o <<0>> \o <<pre, x>> :
        v \in XKVersions, l \in {0, 7}, i \in {0, HARDENED},
        pre \in {0, 2, 3}, x \in {0, SECP256K1_GX}}

\* the strings given to deserialize: the encoding of 82 bytes whose checksum
\* is the right one plus damage; a string too long; one with a character
\* outside the alphabet; the empty string
XKGiven ==
    {base58_encode(b \o [j \in 1 .. CHECKSUM_LEN |->
                            (Take(sha256(sha256(b)), 4)[j] + damage) % 256]) :
        b \in XKPayloads, damage \in 0 .. MaxDamage}
    \cup {[j \in 1 .. 2 * SER_LEN |-> BASE58_COUNT - 1], <<1, BASE58_COUNT>>, <<>>}

MaxSeedLen == 2

\* the seeds: every one of a byte, and the short ones of two of its values
XKSeeds ==
    {<<b>> : b \in Byte} \cup UNION {[1 .. len -> {0, 102}] : len \in 0 .. MaxSeedLen}

\* the objects deserialize is given a string for: the targets, and a private
\* key that is the master of a BIP32 object
XKOwners == XKTargets \cup {ExtendedKey_default(BytesKey(<<1>>), <<9>>)}

XKInit ==
    /\ \/ xkIn \in [op : {"roundtrip"}, node : XKNodes, into : XKTargets, index : {0}]
       \/ xkIn \in [op : {"derive"}, node : XKParents, into : {None}, index : XKIndexes]
       \/ xkIn \in [op : {"deserialize"}, given : XKGiven, into : XKOwners]
       \/ xkIn \in [op : {"seed"}, seed : XKSeeds]
    /\ xkOut = None
    /\ XKeyOthersIdle

\* the public key of a private node
public_of(node) ==
    [node EXCEPT !.key = PointKey(get_public_point(KeysBTC_new(node.key.bytes)))]

RunSerialize ==
    /\ xkIn.op = "roundtrip" /\ xkOut = None
    /\ xkOut' = [step |-> "serialized", ser |-> serialize(xkIn.node)]
    /\ UNCHANGED <<xkIn, XKeyOthers>>

RunDeserialize ==
    /\ xkIn.op = "roundtrip" /\ xkOut # None
    /\ xkOut.step = "serialized" /\ xkOut.ser.err = NoError
    /\ xkOut' = [step |-> "deserialized", ser |-> xkOut.ser,
                 res |-> deserialize(xkIn.into, xkOut.ser.val)]
    /\ UNCHANGED <<xkIn, XKeyOthers>>

\* deserialize of a string that is not the return of serialize
RunDeserializeGiven ==
    /\ xkIn.op = "deserialize" /\ xkOut = None
    /\ xkOut' = [step |-> "given", res |-> deserialize(xkIn.into, xkIn.given)]
    /\ UNCHANGED <<xkIn, XKeyOthers>>

RunSeedToMasterKey ==
    /\ xkIn.op = "seed" /\ xkOut = None
    /\ xkOut' = [step |-> "master", res |-> seed_to_master_key(xkIn.seed)]
    /\ UNCHANGED <<xkIn, XKeyOthers>>

RunPrvToChild ==
    /\ xkIn.op = "derive" /\ xkOut = None
    /\ xkOut' = [step |-> "private", prv |-> prv_to_child(KeyEntry(xkIn.node), xkIn.index)]
    /\ UNCHANGED <<xkIn, XKeyOthers>>

RunPubToChild ==
    /\ xkIn.op = "derive" /\ xkOut # None
    /\ xkOut.step = "private" /\ KeysBTC_init_ok(xkIn.node.key.bytes)
    /\ xkOut' = [step |-> "public", prv |-> xkOut.prv,
                 pub |-> pub_to_child(KeyEntry(public_of(xkIn.node)), xkIn.index)]
    /\ UNCHANGED <<xkIn, XKeyOthers>>

XKNext ==
    \/ RunSerialize
    \/ RunDeserialize
    \/ RunDeserializeGiven
    \/ RunSeedToMasterKey
    \/ RunPrvToChild
    \/ RunPubToChild

SpecXKey == XKInit /\ [][XKNext]_vars

\* C4: whatever private or public ExtendedKey is serialized (depth 0..255,
\* index hardened or not), deserializing the string succeeds and leaves the
\* object with the same variant, key material, chain code, depth, index and
\* fingerprint.
C4_DeserializeInvertsSerialize ==
    (xkIn # None /\ xkIn.op = "roundtrip" /\ xkOut # None) =>
        /\ xkOut.ser.err = NoError
        /\ xkOut.step = "deserialized" =>
              /\ xkOut.res.err = NoError
              /\ xkOut.res.self = xkIn.node

\* a public node at depth 255 with a hardened index and an odd y came back
\* from its string, in an object that held another key
C4_Witness ==
    /\ xkIn # None /\ xkIn.op = "roundtrip" /\ xkOut # None
    /\ xkOut.step = "deserialized"
    /\ is_public(xkIn.node) /\ xkIn.node.key.point.y % 2 = 1
    /\ xkIn.node.level = 255 /\ xkIn.node.index >= HARDENED
    /\ is_public(xkIn.into)
    /\ xkOut.res.self = xkIn.node

\* C5: for a private parent with a scalar in [1, n) and a non-hardened index,
\* prv_to_child and pub_to_child of the parent's public key return a child
\* together, and G * (child scalar) is the child public point.
C5_PrivateAndPublicChildAgree ==
    (/\ xkIn # None /\ xkIn.op = "derive" /\ xkOut # None
     /\ xkOut.step = "public"
     /\ get_private_key_int(KeysBTC_new(xkIn.node.key.bytes)) \in 1 .. SECP256K1_ORDER - 1
     /\ xkIn.index < HARDENED) =>
        /\ (xkOut.prv.err = NoError) <=> (xkOut.pub.err = NoError)
        /\ xkOut.prv.err = NoError =>
              multiply(get_generator_point, bytes2int(xkOut.prv.val.key.bytes))
                  = xkOut.pub.val.key.point

(***************************************************************************)
(* SpecBip32: a BIP32 object is built from a master key and a path,        *)
(* build_keys_path is called any number of times, and one derivation is    *)
(* called.  The run ends there: ckd_priv and ckd_pub leave the object as   *)
(* build_keys_path() leaves it and the static methods leave it alone, so   *)
(* a call after a derivation is the same call of a run without it.         *)
(***************************************************************************)
MaxMasterKey == 3

MaxPathLen == 2

\* the indexes of the static methods' calls
BPIndexes == {0, 1, HARDENED, 2 * HARDENED - 1}

\* the lists of at most MaxPathLen indexes, normal and hardened
BPPaths == UNION {[1 .. len -> {0, HARDENED}] : len \in 0 .. MaxPathLen}

BPScalars == (0 .. MaxMasterKey) \cup {7}

BPMasters ==
    {ExtendedKey_default(BytesKey(<<d>>), <<0>>) : d \in BPScalars}
    \cup {ExtendedKey_default(PointKey(multiply(get_generator_point, d)), <<0>>) :
             d \in BPScalars \ {0}}

BPReturn(op, arg, err, val) == [op |-> op, arg |-> arg, err |-> err, val |-> val]

Bip32Init ==
    /\ bpObj = None
    /\ bpRet = None
    /\ Bip32OthersIdle

Construct ==
    /\ bpObj = None /\ bpRet = None
    /\ \E master \in BPMasters, level_indexes \in BPPaths :
          LET r == BIP32_init(master, level_indexes)
          IN  /\ bpObj' = IF r.err = NoError THEN Some(r.val) ELSE None
              /\ bpRet' = BPReturn("BIP32", level_indexes, r.err, None)
    /\ UNCHANGED Bip32Others

\* no derivation was called yet
BeforeDerivation == bpObj # None /\ bpRet.op \in {"BIP32", "build_keys_path"}

CallBuildKeysPath ==
    /\ BeforeDerivation
    /\ \E level_indexes \in BPPaths :
          LET r == build_keys_path(bpObj[1], level_indexes)
          IN  /\ bpObj' = Some(r.self)
              /\ bpRet' = BPReturn("build_keys_path", level_indexes, r.err, None)
    /\ UNCHANGED Bip32Others

CallCkdPriv ==
    /\ BeforeDerivation
    /\ \E index_list \in BPPaths :
          LET r == ckd_priv(bpObj[1], index_list)
          IN  /\ bpObj' = Some(r.self)
              /\ bpRet' = BPReturn("ckd_priv", index_list, r.err, r.val)
    /\ UNCHANGED Bip32Others

CallCkdPub ==
    /\ BeforeDerivation
    /\ \E index_list \in BPPaths :
          LET r == ckd_pub(bpObj[1], index_list)
          IN  /\ bpObj' = Some(r.self)
              /\ bpRet' = BPReturn("ckd_pub", index_list, r.err, r.val)
    /\ UNCHANGED Bip32Others

\* the keys a caller takes from the object to derive from
BPPrivates(self) ==
    {self.master_prv} \cup {self.keys_path[i].private : i \in 1 .. Len(self.keys_path)}

BPPublics(self) ==
    {self.master_pub} \cup {self.keys_path[i].public : i \in 1 .. Len(self.keys_path)}

\* the static method prv_to_child on an extended private key of the object
CallPrvToChild ==
    /\ BeforeDerivation
    /\ \E parent \in {e \in BPPrivates(bpObj[1]) : e.kind = "key"},
          index \in BPIndexes :
          LET r == prv_to_child(parent, index)
          IN  bpRet' = BPReturn("prv_to_child", [parent |-> parent, index |-> index],
                                r.err, r.val)
    /\ UNCHANGED <<bpObj, Bip32Others>>

\* the static method pub_to_child on an extended public key of the object
CallPubToChild ==
    /\ BeforeDerivation
    /\ \E parent \in {e \in BPPublics(bpObj[1]) : e.kind = "key"},
          index \in BPIndexes :
          LET r == pub_to_child(parent, index)
          IN  bpRet' = BPReturn("pub_to_child", [parent |-> parent, index |-> index],
                                r.err, r.val)
    /\ UNCHANGED <<bpObj, Bip32Others>>

Bip32Next ==
    \/ Construct
    \/ CallBuildKeysPath
    \/ CallCkdPriv
    \/ CallCkdPub
    \/ CallPrvToChild
    \/ CallPubToChild

SpecBip32 == Bip32Init /\ [][Bip32Next]_vars

\* C6: every private and public entry of keys_path is an ExtendedKey, or
\* None on the private side of an object without a master private key: a
\* failed derivation is raised to the caller, its message is never stored.
C6_KeysPathHoldsOnlyKeys ==
    bpObj # None =>
        \A i \in 1 .. Len(bpObj[1].keys_path) :
            /\ bpObj[1].keys_path[i].public.kind = "key"
            /\ bpObj[1].keys_path[i].private.kind =
                  (IF bpObj[1].master_prv.kind = "None" THEN "None" ELSE "key")

\* C7: pub_to_child with an index >= 2^31, and ckd_pub with a list that holds
\* such an index, fail with an error and return no child key.
C7_HardenedPublicDerivationFails ==
    (/\ bpRet # None
     /\ \/ bpRet.op = "pub_to_child" /\ bpRet.arg.index >= HARDENED
        \/ bpRet.op = "ckd_pub"
              /\ \E i \in 1 .. Len(bpRet.arg) : bpRet.arg[i] >= HARDENED) =>
        /\ bpRet.err # NoError
        /\ bpRet.val = None

\* ckd_pub of an object without a master private key, whose path derived a
\* public key, raised ValueError at the hardened index after a normal one
C7_Witness ==
    /\ bpObj # None /\ bpRet # None
    /\ bpObj[1].master_prv.kind = "None"
    /\ Len(bpObj[1].keys_path) > 1
    /\ bpObj[1].keys_path[Len(bpObj[1].keys_path)].public.kind = "key"
    /\ bpRet.op = "ckd_pub" /\ bpRet.arg = <<0, HARDENED>>
    /\ pub_to_child(bpObj[1].keys_path[Len(bpObj[1].keys_path)].public, 0).err = NoError
    /\ bpRet.err = "ValueError" /\ bpRet.val = None

(***************************************************************************)
(* SpecWif: a private key is converted to WIF, and a WIF string is         *)
(* converted back: the string returned, or the encoding of the same bytes  *)
(* with another checksum.                                                  *)
(***************************************************************************)
WifInit ==
    /\ wfIn \in [private_key : {<<b>> : b \in Byte}, compressed : BOOLEAN,
                 damage : 0 .. MaxDamage]
    /\ wfOut = None
    /\ WifOthersIdle

\* the bytes of the string given to privatekey_from_wif: the checksum is the
\* right one plus damage
wif_sent(private_key, compressed, damage) ==
    LET wif == wif_body(private_key, compressed)
        sum == Take(sha256(sha256(wif)), 4)
    IN  wif \o [j \in 1 .. Len(sum) |-> (sum[j] + damage) % 256]

RunPrivatekeyToWif ==
    /\ wfOut = None
    /\ wfOut' = [step |-> "wif",
                 wif |-> privatekey_to_wif(wfIn.private_key, wfIn.compressed)]
    /\ UNCHANGED <<wfIn, WifOthers>>

RunPrivatekeyFromWif ==
    /\ wfOut # None /\ wfOut.step = "wif" /\ wfOut.wif.err = NoError
    /\ LET sent  == wif_sent(wfIn.private_key, wfIn.compressed, wfIn.damage)
           given == IF wfIn.damage = 0 THEN wfOut.wif.val ELSE base58_encode(sent)
       IN  wfOut' = [step |-> "key", wif |-> wfOut.wif, sent |-> sent,
                     given |-> given, key |-> privatekey_from_wif(given)]
    /\ UNCHANGED <<wfIn, WifOthers>>

WifNext == RunPrivatekeyToWif \/ RunPrivatekeyFromWif

SpecWif == WifInit /\ [][WifNext]_vars

(***************************************************************************)
(* transact.py: a TransactBTC keeps its inputs and outputs in the order    *)
(* they were added.  struct.pack keeps its widths (L is 4 bytes, Q is 8,   *)
(* B is 1); a field an input does not have yet is None.                    *)
(***************************************************************************)
OP_DUP == 118

OP_EQUAL == 135

OP_EQUALVERIFY == 136

OP_HASH160 == 169

OP_CHECKSIG == 172

\* struct.pack of a little-endian unsigned integer of size bytes
RECURSIVE pack(_, _)
pack(i, size) ==
    IF size = 0 THEN <<>> ELSE <<i % 256>> \o pack(i \div 256, size - 1)

\* tx_hash[::-1]
reversed(b) == [j \in 1 .. Len(b) |-> b[Len(b) + 1 - j]]

signature_to_der(left, right) ==
    LET r  == IF left[1] > 127 THEN <<0>> \o left ELSE left
        s  == IF right[1] > 127 THEN <<0>> \o right ELSE right
        rs == <<2>> \o int2bytes(Len(r), 1) \o r \o
              <<2>> \o int2bytes(Len(s), 1) \o s
    IN  <<48>> \o int2bytes(Len(rs), 1) \o rs

get_script_sig(r, s, public_key) ==
    LET sig == signature_to_der(r, s)
    IN  int2bytes(Len(sig) + 1, 1) \o sig \o <<1>> \o
        int2bytes(Len(public_key), 1) \o public_key

get_script_p2pkh(hash) ==
    <<OP_DUP, OP_HASH160>> \o int2bytes(Len(hash), 1) \o hash \o
    <<OP_EQUALVERIFY, OP_CHECKSIG>>

get_script_p2sh(hash) ==
    <<OP_HASH160>> \o int2bytes(Len(hash), 1) \o hash \o <<OP_EQUAL>>

\* the fields TransactBTC.__init__ sets
TransactBTC_new == [ins |-> <<>>, outs |-> <<>>]

\* add_in_transaction(tx_hash, index, keys): the object after the call; the
\* input keeps the keys object, whose caches get_pubkey_hash has filled
add_in_transaction(self, tx_hash, index, keys) ==
    Apply(get_pubkey_hash(keys), LAMBDA c :
    Apply(get_script_p2pkh(c.val), LAMBDA script :
        [self EXCEPT !.ins = Append(@,
            [previous_tx_hash     |-> reversed(tx_hash),
             previous_txout_index |-> pack(index, 4),
             script_sig           |-> script,
             script_length        |-> pack(Len(script), 1),
             sequence             |-> <<255, 255, 255, 255>>,
             keys                 |-> c.self,
             final_script_sig     |-> None,
             final_script_length  |-> None])]))

\* add_out_transaction(to_hash, value, tx_type): to_hash is bytes, or a str
\* that address_to_pubkey_hash converts; the error raised and the object
add_out_transaction(self, to_hash, value, tx_type) ==
    Apply(IF to_hash.str THEN address_to_pubkey_hash(to_hash.val)
          ELSE Return(to_hash.val), LAMBDA h :
        IF h.err # NoError THEN [err |-> h.err, self |-> self]
        ELSE IF tx_type \notin {"p2pkh", "p2sh"}
        THEN [err |-> "ValueError", self |-> self]
        ELSE Apply(IF tx_type = "p2pkh" THEN get_script_p2pkh(h.val)
                   ELSE get_script_p2sh(h.val), LAMBDA script :
            [err  |-> NoError,
             self |-> [self EXCEPT !.outs = Append(@,
                [value         |-> pack(value, 8),
                 script_pubkey |-> script,
                 script_length |-> pack(Len(script), 1)])]]))

\* the bytes gen_transaction adds for input i (counted from 0), or the
\* KeyError of an input without final_script_length
gen_input(tx_in, i, input_num, to_sign) ==
    IF to_sign
    THEN Return(tx_in.previous_tx_hash \o tx_in.previous_txout_index \o
                (IF i # input_num THEN <<0>> ELSE tx_in.script_length) \o
                (IF i # input_num THEN <<>> ELSE tx_in.script_sig) \o
                tx_in.sequence)
    ELSE IF tx_in.final_script_length = None \/ tx_in.final_script_sig = None
    THEN Raise("KeyError")
    ELSE Return(tx_in.previous_tx_hash \o tx_in.previous_txout_index \o
                tx_in.final_script_length[1] \o tx_in.final_script_sig[1] \o
                tx_in.sequence)

\* the loop of gen_transaction over the inputs, from input i on
RECURSIVE gen_inputs(_, _, _, _)
gen_inputs(ins, i, input_num, to_sign) ==
    IF i >= Len(ins) THEN Return(<<>>)
    ELSE Apply(gen_input(ins[i + 1], i, input_num, to_sign), LAMBDA one :
         IF one.err # NoError THEN one
         ELSE Apply(gen_inputs(ins, i + 1, input_num, to_sign), LAMBDA rest :
              IF rest.err # NoError THEN rest
              ELSE Return(one.val \o rest.val)))

\* the loop of gen_transaction over the outputs, from output i on
RECURSIVE gen_outputs(_, _)
gen_outputs(outs, i) ==
    IF i >= Len(outs) THEN <<>>
    ELSE outs[i + 1].value \o outs[i + 1].script_length \o
         outs[i + 1].script_pubkey \o gen_outputs(outs, i + 1)

\* gen_transaction(input_num, to_sign)
gen_transaction(self, input_num, to_sign) ==
    Apply(gen_inputs(self.ins, 0, input_num, to_sign), LAMBDA inputs :
        IF inputs.err # NoError THEN inputs
        ELSE Return(pack(1, 4) \o pack(Len(self.ins), 1) \o inputs.val \o
                    pack(Len(self.outs), 1) \o gen_outputs(self.outs, 0) \o
                    pack(0, 4) \o (IF to_sign THEN pack(1, 4) ELSE <<>>)))

\* the final script sign_all_inputs computes for input i (counted from 0)
\* of the object as it is
signed_script(self, i) ==
    Apply(gen_transaction(self, i, TRUE).val, LAMBDA temp_tx :
    Apply(sha256(sha256(temp_tx)), LAMBDA hash_temp_tx :
    Apply(sign(self.ins[i + 1].keys, hash_temp_tx), LAMBDA sg :
        get_script_sig(sg.r, sg.s,
                       get_public_key(self.ins[i + 1].keys, TRUE).val))))

\* the loop of sign_all_inputs, from input i on: the object after it
RECURSIVE sign_inputs(_, _)
sign_inputs(self, i) ==
    IF i >= Len(self.ins) THEN self
    ELSE Apply(signed_script(self, i), LAMBDA script :
         sign_inputs(
            [self EXCEPT
                !.ins[i + 1].keys = get_public_key(@, TRUE).self,
                !.ins[i + 1].final_script_sig = Some(script),
                !.ins[i + 1].final_script_length = Some(pack(Len(script), 1))],
            i + 1))

sign_all_inputs(self) == sign_inputs(self, 0)

(***************************************************************************)
(* SpecTx: inputs and outputs are added to a TransactBTC, its inputs are   *)
(* signed and the final transaction is asked for, in any order.            *)
(***************************************************************************)
MaxIns == 2

MaxOuts == 2

MaxTxKey == 2

MaxTxIndex == 1

MaxTxValue == 1

\* the hash of the transaction an input spends
TxHashes == {<<1, 2>>}

\* the keys objects given to add_in_transaction
TxKeys == {KeysBTC_new(<<b>>) : b \in 1 .. MaxTxKey}

\* the destinations given to add_out_transaction: a hash, or an address
TxDestinations ==
    {[str |-> FALSE, val |-> <<17>>],
     [str |-> TRUE, val |-> get_address(KeysBTC_new(<<1>>), None).val]}

TxTypes == {"p2pkh", "p2sh", "p2wpkh"}

TxInit ==
    /\ txObj = TransactBTC_new
    /\ txRet = [op |-> "TransactBTC", err |-> NoError, val |-> None]
    /\ TxOthersIdle

AddIn ==
    /\ Len(txObj.ins) < MaxIns
    /\ \E tx_hash \in TxHashes, index \in 0 .. MaxTxIndex, keys \in TxKeys :
        /\ txObj' = add_in_transaction(txObj, tx_hash, index, keys)
        /\ txRet' = [op |-> "add_in_transaction", err |-> NoError, val |-> None]
    /\ UNCHANGED TxOthers

AddOut ==
    /\ Len(txObj.outs) < MaxOuts
    /\ \E to_hash \in TxDestinations, value \in 1 .. MaxTxValue,
          tx_type \in TxTypes :
        LET c == add_out_transaction(txObj, to_hash, value, tx_type)
        IN  /\ txObj' = c.self
            /\ txRet' = [op |-> "add_out_transaction", err |-> c.err,
                         val |-> None]
    /\ UNCHANGED TxOthers

SignAllInputs ==
    /\ txObj' = sign_all_inputs(txObj)
    /\ txRet' = [op |-> "sign_all_inputs", err |-> NoError, val |-> None]
    /\ UNCHANGED TxOthers

GenFinal ==
    /\ LET c == gen_transaction(txObj, 0, FALSE)
       IN  txRet' = [op |-> "gen_transaction", err |-> c.err, val |-> c.val]
    /\ UNCHANGED <<txObj, TxOthers>>

TxNext == AddIn \/ AddOut \/ SignAllInputs \/ GenFinal

SpecTx == TxInit /\ [][TxNext]_vars

\* C11: for every private key and both values of compressed,
\* privatekey_from_wif of the string privatekey_to_wif returned is the key.
C11_WifRoundTrip ==
    (wfOut # None /\ wfOut.step = "key" /\ wfIn.damage = 0) =>
        /\ wfOut.key.err = NoError
        /\ wfOut.key.val = wfIn.private_key

\* C12: privatekey_from_wif fails for a string whose checksum bytes are not
\* the head of the double SHA-256 of the bytes before them.
C12_WifChecksumIsChecked ==
    (/\ wfOut # None /\ wfOut.step = "key"
     /\ LET n == Len(wfOut.sent) - CHECKSUM_LEN
        IN  Slice(wfOut.sent, n, Len(wfOut.sent))
               # Take(sha256(sha256(Slice(wfOut.sent, 0, n))), 4)) =>
        /\ wfOut.key.err # NoError
        /\ wfOut.key.val = None

\* C13: deserialize succeeds only when the decoded bytes end with the head of
\* the double SHA-256 of the bytes before and start with the mainnet private
\* or public version; any other string fails, and a wrong checksum fails
\* before anything of the object is assigned, whatever the version is.
C13_DeserializeRejects ==
    (xkIn # None /\ xkIn.op = "deserialize" /\ xkOut # None) =>
        LET dec == base58_decode(xkIn.given, SER_LEN)
            sumOk == Take(sha256(sha256(Slice(dec.val, 0, SER_PAYLOAD_LEN))), 4)
                        = Slice(dec.val, SER_PAYLOAD_LEN, SER_LEN)
            versionOk == Slice(dec.val, 0, 4) \in {MAINNET_PRIVATE, MAINNET_PUBLIC}
        IN  /\ dec.err => (xkOut.res.err # NoError /\ xkOut.res.self = xkIn.into)
            /\ (~dec.err /\ ~sumOk) =>
                  (xkOut.res.err = "ValueError" /\ xkOut.res.self = xkIn.into)
            /\ (~dec.err /\ sumOk /\ ~versionOk) =>
                  (xkOut.res.err = "ValueError" /\ xkOut.res.self.key = xkIn.into.key)
            /\ xkOut.res.err = NoError => (~dec.err /\ sumOk /\ versionOk)

\* a string with a wrong checksum and the testnet version was refused, and
\* the object deserialize was called on holds what it held
C13_Witness ==
    /\ xkIn # None /\ xkIn.op = "deserialize" /\ xkOut # None
    /\ LET dec == base58_decode(xkIn.given, SER_LEN)
       IN  /\ ~dec.err
           /\ Slice(dec.val, 0, 4) \notin {MAINNET_PRIVATE, MAINNET_PUBLIC}
           /\ dec.val[5] # xkIn.into.level
           /\ Take(sha256(sha256(Slice(dec.val, 0, SER_PAYLOAD_LEN))), 4)
                 # Slice(dec.val, SER_PAYLOAD_LEN, SER_LEN)
    /\ xkOut.res.err = "ValueError"
    /\ xkOut.res.self = xkIn.into

\* C14: seed_to_master_key fails exactly when the left half IL of
\* HMAC-SHA512("Bitcoin seed", seed) is 0 or >= n; otherwise it returns the
\* private key IL with the right half as chain code, level 0, index 0 and a
\* fingerprint of zeros.
C14_MasterKeyFromSeed ==
    (xkIn # None /\ xkIn.op = "seed" /\ xkOut # None) =>
        LET I  == hmac_sha512(BITCOIN_SEED, xkIn.seed)
            IL == bytes2int(Take(I, KEY_LEN))
        IN  /\ (xkOut.res.err # NoError) <=> (IL = 0 \/ IL >= SECP256K1_ORDER)
            /\ xkOut.res.err # NoError => xkOut.res.val = None
            /\ xkOut.res.err = NoError =>
                  /\ is_private(xkOut.res.val)
                  /\ xkOut.res.val.key.bytes = Take(I, KEY_LEN)
                  /\ xkOut.res.val.chain_code = Slice(I, KEY_LEN, Len(I))
                  /\ xkOut.res.val.level = 0
                  /\ xkOut.res.val.index = 0
                  /\ xkOut.res.val.fingerprint = [j \in 1 .. FINGERPRINT_LEN |-> 0]

\* a seed whose left half is >= n was refused
C14_Witness ==
    /\ xkIn # None /\ xkIn.op = "seed" /\ xkOut # None
    /\ bytes2int(Take(hmac_sha512(BITCOIN_SEED, xkIn.seed), KEY_LEN)) >= SECP256K1_ORDER
    /\ xkOut.res = Raise("ValueError")

\* C15: a child prv_to_child or pub_to_child returns has the parent's level
\* plus 1, the index asked for, and as fingerprint the head of
\* RIPEMD160(SHA256(the parent's compressed public key)): the same three
\* values from the private and from the public derivation.
C15_ChildMetadata ==
    (xkIn # None /\ xkIn.op = "derive" /\ xkOut # None) =>
        LET parentKey == point_to_publickey(
                             multiply(get_generator_point, bytes2int(xkIn.node.key.bytes)),
                             TRUE)
            Expected(child) ==
                /\ child.level = xkIn.node.level + 1
                /\ child.index = xkIn.index
                /\ child.fingerprint = Take(ripemd160(sha256(parentKey)), 4)
        IN  /\ xkOut.prv.err = NoError => Expected(xkOut.prv.val)
            /\ (xkOut.step = "public" /\ xkOut.pub.err = NoError) =>
                  Expected(xkOut.pub.val)

\* both derivations returned a child of a parent at level 1, with the same
\* level 2, index and fingerprint
C15_Witness ==
    /\ xkIn # None /\ xkIn.op = "derive" /\ xkOut # None
    /\ xkOut.step = "public"
    /\ xkIn.node.level = 1 /\ xkIn.index = 1
    /\ xkOut.prv.err = NoError /\ xkOut.pub.err = NoError
    /\ xkOut.prv.val.level = 2 /\ xkOut.pub.val.level = 2
    /\ xkOut.prv.val.index = 1 /\ xkOut.pub.val.index = 1
    /\ xkOut.prv.val.fingerprint = xkOut.pub.val.fingerprint

\* C16: a call of build_keys_path, ckd_priv, ckd_pub, prv_to_child or
\* pub_to_child, whether it returns or raises, leaves the master keys of the
\* object as they were, the root of keys_path being these keys, and leaves
\* every key of the object that could be the parent as it was.
C16_DerivationKeepsParents ==
    [][(bpObj # None /\ bpObj' # None) =>
          /\ bpObj'[1].master_prv = bpObj[1].master_prv
          /\ bpObj'[1].master_pub = bpObj[1].master_pub
          /\ Len(bpObj'[1].keys_path) > 0 =>
                bpObj'[1].keys_path[1] = [private |-> bpObj[1].master_prv,
                                          public |-> bpObj[1].master_pub]
          /\ bpRet'.op \in {"prv_to_child", "pub_to_child"} =>
                /\ bpObj' = bpObj
                /\ bpRet'.arg.parent \in BPPrivates(bpObj'[1]) \cup BPPublics(bpObj'[1])
          /\ bpRet'.op \in {"ckd_priv", "ckd_pub"} =>
                bpObj'[1] = build_keys_path(bpObj[1], <<>>).self]_vars

\* build_keys_path raised an error that is no ValueError at the second level,
\* and the root of keys_path is the master keys, a private key of level 0
C16_Witness ==
    /\ bpObj # None /\ bpRet # None
    /\ bpRet.op = "build_keys_path" /\ bpRet.err = "AttributeError"
    /\ Len(bpObj[1].keys_path) = 2
    /\ bpObj[1].master_prv.kind = "key"
    /\ bpObj[1].master_prv.key[1].level = 0
    /\ bpObj[1].keys_path[1] = [private |-> bpObj[1].master_prv,
                                public |-> bpObj[1].master_pub]

\* C17: the node a derivation returns has a depth in 0..255, the values of
\* the 1-byte depth field of the serialization; no node of depth 256 is
\* returned for a parent of depth 255.
C17_DepthFitsOneByte ==
    (xkIn # None /\ xkIn.op = "derive" /\ xkOut # None) =>
        /\ xkOut.prv.err = NoError =>
              /\ xkOut.prv.val.level \in 0 .. 255
              /\ serialize(xkOut.prv.val).err = NoError
        /\ (xkOut.step = "public" /\ xkOut.pub.err = NoError) =>
              /\ xkOut.pub.val.level \in 0 .. 255
              /\ serialize(xkOut.pub.val).err = NoError

\* C18: the nonce random_rfc6979 returns has 1 <= k < q and, with a generator
\* point, (k * G).x # 0; it is the value of the call as a whole.  Every
\* candidate refused failed one of the tests, and after the last refusal K is
\* HMAC(K, V || 0x00) and V is HMAC(K, V) of the K and V before it.
C18_NonceIsSuitable ==
    (sgOut # None /\ sgOut.pc \in {"h", "test", "returned"}) =>
        /\ sgOut.pc = "returned" =>
              /\ 1 <= sgOut.kk /\ sgOut.kk < SECP256K1_ORDER
              /\ sgIn.useGen => multiply(get_generator_point, sgOut.kk).x # 0
              /\ sgOut.kk = random_rfc6979(sgIn.message, sgIn.x, SECP256K1_ORDER,
                                           sgIn.useGen, get_generator_point)
        /\ \A j \in 1 .. Len(sgOut.refused) :
              \/ sgOut.refused[j] < 1
              \/ sgOut.refused[j] >= SECP256K1_ORDER
              \/ sgIn.useGen /\ multiply(get_generator_point, sgOut.refused[j]).x = 0
        /\ (sgOut.pc = "h" /\ sgOut.before # <<>>) =>
              /\ sgOut.k = hmac_sha(sgOut.before[1].k, sgOut.before[1].v \o <<0>>)
              /\ sgOut.v = hmac_sha(sgOut.k, sgOut.before[1].v)

\* with a generator point, a nonce was returned after two candidates were
\* refused, one being 0 and one not below q
C18_Witness ==
    /\ sgOut # None /\ sgOut.pc = "returned" /\ sgIn.useGen
    /\ Len(sgOut.refused) >= 2
    /\ \E j \in 1 .. Len(sgOut.refused) : sgOut.refused[j] = 0
    /\ \E j \in 1 .. Len(sgOut.refused) : sgOut.refused[j] >= SECP256K1_ORDER
    /\ 1 <= sgOut.kk /\ sgOut.kk < SECP256K1_ORDER

\* C19: verify(digest, r, s) returns True exactly when the x coordinate of
\* C = u1 * G + u2 * Q, reduced mod n, is r, where w = s^-1 mod n,
\* u1 = h * w mod n, u2 = r * w mod n, h = digest mod n or 1 when that is 0,
\* and Q is the public point; k * P is the sum of k copies of P, the point
\* at infinity for k = 0.
C19_VerifyDecides ==
    (sgOut # None /\ sgOut.pc = "verdict" /\ ~sgOut.ver.err) =>
        LET n   == SECP256K1_ORDER
            G   == get_generator_point
            Q   == multiply(G, sgIn.d)
            Times(P, k) == IF k = 0 THEN infinity ELSE multiply(P, k)
            h0  == bytes2int(sgIn.digest) % n
            h   == IF h0 = 0 THEN 1 ELSE h0
            w   == CHOOSE i \in 1 .. n - 1 : (i * sgIn.s) % n = 1
            u1  == (h * w) % n
            u2  == (sgIn.r * w) % n
            C   == add(Times(G, u1), Times(Q, u2))
        IN  sgOut.ver.val <=> (C # infinity /\ C.x % n = sgIn.r)

\* C20: for m >= 2 and any integer a, mod_inverse(a, m) returns x with
\* 0 <= x < m and a * x mod m = 1 when gcd(a, m) = 1, and raises, returning
\* nothing, when gcd(a, m) # 1, as for a = 0 and for a multiple of m.
C20_ModInverse ==
    (ecOut # None /\ ecOut.done) =>
        LET a == ecIn.a
            m == ecIn.m
            coprime == \A g \in 2 .. m : ~(a % g = 0 /\ m % g = 0)
        IN  IF coprime
            THEN /\ ~ecOut.res.err
                 /\ 0 <= ecOut.res.val /\ ecOut.res.val < m
                 /\ (a * ecOut.res.val) % m = 1
            ELSE ecOut.res.err

\* C21: the constructor fails for a pair of coordinates that is neither the
\* infinity sentinel nor a solution of y^2 = x^3 + a*x + b (mod p), and makes
\* the point otherwise; add, double and multiply of points that are on the
\* curve or infinity return infinity or a point on the curve.
C21_PointsStayOnCurve ==
    (ecOut # None /\ ecOut.done) =>
        LET OnCurve(pt) ==
                /\ pt.x \in 0 .. SECP256K1_P - 1
                /\ pt.y \in 0 .. SECP256K1_P - 1
                /\ (pt.y * pt.y) % SECP256K1_P
                     = (pt.x * pt.x * pt.x + SECP256K1_A * pt.x + SECP256K1_B)
                          % SECP256K1_P
        IN  IF ecIn.op = "ECPoint"
            THEN /\ ecOut.err <=> ~(ecIn.P = infinity \/ OnCurve(ecIn.P))
                 /\ ~ecOut.err => ecOut.res = ecIn.P
            ELSE /\ ~ecOut.err
                 /\ ecOut.res = infinity \/ OnCurve(ecOut.res)

\* add of two different points of the curve, neither the inverse of the
\* other, returned a third point
C21_Witness ==
    /\ ecOut # None /\ ecOut.done /\ ecIn.op = "add"
    /\ ecIn.P # infinity /\ ecIn.Q # infinity /\ ecIn.P.x # ecIn.Q.x
    /\ ecOut.res \notin {infinity, ecIn.P, ecIn.Q}

\* C22: for an object with a private master and a path of indexes, hardened
\* or not in any order, whose private derivations all succeed, ckd_priv
\* returns one private child per index of its list, each derived from the
\* private key the path ends at.
C22_CkdPrivFollowsPath ==
    (/\ bpObj # None /\ bpRet # None
     /\ bpRet.op = "ckd_priv"
     /\ bpObj[1].master_prv.kind = "key") =>
        LET RECURSIVE PathEnd(_, _)
            PathEnd(parent, path) ==
                IF Len(path) = 0 THEN Return(parent)
                ELSE LET r == prv_to_child_derive(parent, Head(path))
                     IN  IF r.err # NoError THEN r ELSE PathEnd(r.val, Tail(path))
            last == PathEnd(bpObj[1].master_prv.key[1], bpObj[1].level_indexes)
            Child(i) == prv_to_child_derive(last.val, bpRet.arg[i])
        IN  (/\ last.err = NoError
             /\ \A i \in 1 .. Len(bpRet.arg) : Child(i).err = NoError) =>
                /\ bpRet.err = NoError
                /\ Len(bpRet.val) = Len(bpRet.arg)
                /\ \A i \in 1 .. Len(bpRet.arg) : bpRet.val[i] = Child(i).val

\* C23: whatever calls ran on the object before, get_public_key(compressed)
\* returns the prefix 02 (y even) or 03 (y odd) and x when compressed is
\* True, and 04, x and y when it is False, of the public point.
C23_PublicKeyFollowsFlag ==
    (/\ kyObj # None /\ kyRet.op = "get_public_key"
     /\ bytes2int(kyObj[1].private_key) < SECP256K1_ORDER) =>
        LET Q == multiply(get_generator_point, bytes2int(kyObj[1].private_key))
            x == int2bytes(Q.x, KEY_LEN)
            y == int2bytes(Q.y, KEY_LEN)
        IN  kyRet.val = IF kyRet.arg[1]
                        THEN (IF Q.y % 2 = 0 THEN <<2>> ELSE <<3>>) \o x
                        ELSE <<4>> \o x \o y

\* C24: whatever calls ran on the object before, get_address(version)
\* returns the encoding of the requested version byte (0 for None), the
\* public key hash and the checksum, and address_to_pubkey_hash of it
\* returns get_pubkey_hash().
C24_AddressFollowsVersion ==
    (/\ kyObj # None /\ kyRet.op = "get_address"
     /\ bytes2int(kyObj[1].private_key) < SECP256K1_ORDER) =>
        LET version == IF kyRet.arg[1] = None THEN ADDRESS_PREFIX_MAINNET
                       ELSE kyRet.arg[1][1]
            hash    == get_pubkey_hash(kyObj[1]).val
            payload == <<version>> \o hash
            t       == payload \o Take(sha256(sha256(payload)), 4)
        IN  /\ kyRet.val = [j \in 1 .. leading_zeros(t) |-> 0] \o base58_encode(t)
            /\ address_to_pubkey_hash(kyRet.val) = Return(hash)

\* C25: a deserialize that fails, for a wrong checksum, an unknown version
\* or an x that is no point's, leaves the key, chain code, level, index and
\* fingerprint of its object as they were; a BIP32 object that has this
\* object as its master then still has a private master_prv whose chain code
\* and public point are those of its master_pub.
C25_FailedDeserializeKeepsObject ==
    (/\ xkIn # None /\ xkIn.op = "deserialize" /\ xkOut # None
     /\ xkOut.res.err # NoError) =>
        /\ xkOut.res.self = xkIn.into
        /\ LET b == BIP32_init(xkIn.into, <<>>)
           IN  (b.err = NoError /\ b.val.master_prv.kind = "key") =>
                  /\ is_private(xkOut.res.self)
                  /\ b.val.master_pub.key[1].chain_code = xkOut.res.self.chain_code
                  /\ b.val.master_pub.key[1].key.point
                        = multiply(get_generator_point,
                                   bytes2int(xkOut.res.self.key.bytes))

\* C26: whenever gen_transaction(to_sign=False) has produced a final
\* transaction, every input of the object carries a final signature script,
\* that script is the one sign_all_inputs computes over the inputs and
\* outputs the object has at that moment, and final_script_length is the
\* length of that script.
C26_FinalNeedsCurrentSignatures ==
    (txRet # None /\ txRet.op = "gen_transaction" /\ txRet.err = NoError)
    => \A i \in 1 .. Len(txObj.ins) :
        /\ txObj.ins[i].final_script_sig # None
        /\ txObj.ins[i].final_script_length # None
        /\ txObj.ins[i].final_script_sig[1] = signed_script(txObj, i - 1)
        /\ txObj.ins[i].final_script_length[1]
            = pack(Len(txObj.ins[i].final_script_sig[1]), 1)

====
